---- MODULE Spec2Model ----
(***************************************************************************)
(* Scoring and fair-value engine of the stock analyzer endpoints           *)
(* (api/analyze, api/scan, api/discover, api/recommend, api/_utils, app).  *)
(*                                                                         *)
(* Number representation.  The Python code computes on floats; the model   *)
(* computes on exact rationals carried as scaled integers:                 *)
(*   - a raw ratio field (returnOnAssets, profitMargins, earningsGrowth,   *)
(*     trailingPE, priceToSalesTrailing12Months, ...) holding the number v *)
(*     is the integer 100*v ("hundredths");                                *)
(*   - a percentage produced by to_pct is likewise in hundredths;          *)
(*   - prices, EPS and the cash figures are integers in their own unit;    *)
(*   - a fair value or an upside is a fraction [num, den] with den > 0.    *)
(* int(x) of Python truncates toward zero (Trunc); round(x, k) rounds to   *)
(* the nearest, ties to even (RoundDiv).                                   *)
(***************************************************************************)
EXTENDS Integers, Sequences, FiniteSets, TLC

VARIABLES
    pc,             \* position of the request being served
    endpoint,       \* the handler / function serving the request
    algo,           \* scan: the scoring profile named by the caller
    info,           \* provider record of the ticker under analysis
    price,          \* current price handed to the per-ticker computation
    fair_value,     \* fair value handed to a scorer (data['fair_value'])
    result,         \* what the function or handler returned
    watchlist,      \* recommend: the watchlist posted by the caller
    profile,        \* recommend: the profile built from the watchlist
    tickers,        \* batch: number of symbols the request names
    provider,       \* batch: how the provider answered each ticker so far;
                    \* recommendations: how it answers each symbol
    candidates,     \* recommendations: the list picked by pick_candidates
    idx,            \* batch: number of tickers already processed
    opportunities,  \* batch: entries collected so far, in processing order
    response,       \* batch: the list written to the caller
    cache,          \* Flask app: the entries of _cache, key -> (data, timestamp)
    keys,           \* Flask app: which API keys are configured
    now             \* Flask app: the clock, in ticks

vars == <<pc, endpoint, algo, info, price, fair_value, result, watchlist,
          profile, tickers, provider, candidates, idx, opportunities, response,
          cache, keys, now>>

\* Python's None (a missing or null field).
None == -999999

\* hundredths per unit of a raw ratio field
Scale == 100

----------------------------------------------------------------------------
\* Arithmetic helpers

Abs(x) == IF x < 0 THEN -x ELSE x

Min(a, b) == IF a < b THEN a ELSE b

Max(a, b) == IF a > b THEN a ELSE b

\* int(n/d) for d > 0: truncation toward zero
Trunc(n, d) == IF n >= 0 THEN n \div d ELSE -((-n) \div d)

\* max(0, min(cap, x))
Clamp(cap, x) == Max(0, Min(cap, x))

\* round(n/d) for d > 0 to the nearest integer, ties to even
RoundDiv(n, d) ==
    LET q == n \div d
        r == n % d
    IN  IF 2 * r < d THEN q
        ELSE IF 2 * r > d THEN q + 1
        ELSE IF q % 2 = 0 THEN q ELSE q + 1

\* a whole number as a fraction
Frac(n) == [num |-> n, den |-> 1]

RECURSIVE SumSeq(_)
SumSeq(s) == IF s = <<>> THEN 0 ELSE Head(s) + SumSeq(Tail(s))

----------------------------------------------------------------------------
\* Long arithmetic for the compound-growth figures of the sticker price:
\* a natural number of any size is the sequence of its base-Limb digits,
\* least significant first, without leading zeros (<<>> is 0).  The code
\* computes in floating point; the model computes the exact rationals.

Limb == 10000

RECURSIVE BigFromInt(_)
BigFromInt(n) == IF n = 0 THEN <<>> ELSE <<n % Limb>> \o BigFromInt(n \div Limb)

RECURSIVE BigAddCarry(_, _, _)
BigAddCarry(a, b, carry) ==
    IF a = <<>> /\ b = <<>> THEN (IF carry = 0 THEN <<>> ELSE <<carry>>)
    ELSE LET x == IF a = <<>> THEN 0 ELSE Head(a)
             y == IF b = <<>> THEN 0 ELSE Head(b)
             t == x + y + carry
         IN  <<t % Limb>> \o BigAddCarry(IF a = <<>> THEN <<>> ELSE Tail(a),
                                         IF b = <<>> THEN <<>> ELSE Tail(b),
                                         t \div Limb)

BigAdd(a, b) == BigAddCarry(a, b, 0)

\* a * k for a digit 0 <= k < Limb
RECURSIVE BigMulDigit(_, _, _)
BigMulDigit(a, k, carry) ==
    IF k = 0 THEN <<>>
    ELSE IF a = <<>> THEN (IF carry = 0 THEN <<>> ELSE <<carry>>)
    ELSE LET t == Head(a) * k + carry
         IN  <<t % Limb>> \o BigMulDigit(Tail(a), k, t \div Limb)

RECURSIVE BigMul(_, _)
BigMul(a, b) ==
    IF a = <<>> \/ b = <<>> THEN <<>>
    ELSE LET rest == BigMul(a, Tail(b))
         IN  BigAdd(BigMulDigit(a, Head(b), 0),
                    IF rest = <<>> THEN <<>> ELSE <<0>> \o rest)

RECURSIVE BigPow(_, _)
BigPow(a, n) == IF n = 0 THEN <<1>> ELSE BigMul(a, BigPow(a, n - 1))

\* a <= b
RECURSIVE BigLeq(_, _)
BigLeq(a, b) ==
    IF Len(a) # Len(b) THEN Len(a) < Len(b)
    ELSE IF a = <<>> THEN TRUE
    ELSE IF a[Len(a)] # b[Len(b)] THEN a[Len(a)] < b[Len(b)]
    ELSE BigLeq(SubSeq(a, 1, Len(a) - 1), SubSeq(b, 1, Len(b) - 1))

\* the largest q in lo..hi-1 with q * d <= n, given lo * d <= n < hi * d
RECURSIVE BigFloorSearch(_, _, _, _)
BigFloorSearch(n, d, lo, hi) ==
    IF hi - lo <= 1 THEN lo
    ELSE LET mid == lo + (hi - lo) \div 2
         IN  IF BigLeq(BigMul(d, BigFromInt(mid)), n)
             THEN BigFloorSearch(n, d, mid, hi)
             ELSE BigFloorSearch(n, d, lo, mid)

\* quotients of the model stay below this
BigQuotientCap == 1000000000

\* int(n / d) for long n >= 0 and d > 0
BigFloorDiv(n, d) == BigFloorSearch(n, d, 0, BigQuotientCap)

\* round(n / d) for long n >= 0 and d > 0, ties to even
BigRoundDiv(n, d) ==
    LET q == BigFloorDiv(n, d)
        twice == BigMul(n, <<2>>)
        mark == BigMul(d, BigFromInt(2 * q + 1))
    IN  IF twice = mark THEN (IF q % 2 = 0 THEN q ELSE q + 1)
        ELSE IF BigLeq(twice, mark) THEN q
        ELSE q + 1

----------------------------------------------------------------------------
\* Metric normalizer: to_pct of each endpoint (input and output in hundredths)

to_pct_analyze_mut(val) ==
    IF val = None THEN 0
    ELSE IF Abs(val) >= 10 * Scale THEN val
    ELSE val * 100

to_pct_analyze(val) ==
    IF val = None THEN 0
    ELSE IF Abs(val) > 10 * Scale THEN val
    ELSE val * 100

to_pct_scan(val) ==
    IF val = None THEN 0
    ELSE IF Abs(val) > 10 * Scale THEN val
    ELSE val * 100

to_pct_discover(val) ==
    IF val = None THEN 0
    ELSE IF Abs(val) > 10 * Scale THEN val
    ELSE val * 100

to_pct_recommend_mut(val) ==
    IF val = None THEN 0
    ELSE IF Abs(val) > 10 * Scale THEN val
    ELSE val * 100

to_pct_recommend(val) ==
    IF val = None THEN None
    ELSE IF Abs(val) > 10 * Scale THEN val
    ELSE val * 100

\* safe_get(info, key, default): the value, or the default when it is None
safe_get(v, default) == IF v = None THEN default ELSE v

\* data.get(key, 0) or 0 : None and 0 both become 0
OrZero(v) == IF v = None THEN 0 ELSE v

----------------------------------------------------------------------------
\* Upside of a fair value fv = [num, den] over a price p > 0, as a fraction
\* in percent: ((fair_value - price) / price) * 100

UpsideOf(fv, p) == [num |-> (fv.num - p * fv.den) * 100, den |-> p * fv.den]

\* fraction f > n, f >= n (den > 0)
FracGt(f, n) == f.num > n * f.den

FracGe(f, n) == f.num >= n * f.den

\* int(f * a / b) for a fraction f and a, b > 0
FracTrunc(f, a, b) == Trunc(f.num * a, f.den * b)

Check_mut(name, status, points, max) ==
    [name |-> name, pass |-> status, points |-> points, max |-> 15]

\* one checklist entry of analyze's calculate_score
Check(name, status, points, max) ==
    [name |-> name, pass |-> status, points |-> points, max |-> max]

----------------------------------------------------------------------------
\* Proportional scorer of the analyze endpoint: calculate_score(data).
\* Returns [score, checks].

ProportionalPts_mut(pct, cap, span) == Max(0, Trunc((pct + 5 * Scale) * cap, span * Scale))

\* max(0, min(cap, int((pct + 5) * cap / span)))
ProportionalPts(pct, cap, span) == Clamp(cap, Trunc((pct + 5 * Scale) * cap, span * Scale))

calculate_score_analyze(data) ==
    LET roa == OrZero(data.roa)
        roe == OrZero(data.roe)
        cash == OrZero(data.cash)
        debt == OrZero(data.debt)
        p == OrZero(data.price)
        fv == IF data.fair_value.num = 0 THEN Frac(p) ELSE data.fair_value
        profit_margin == OrZero(data.profit_margin)
        ps_ratio == OrZero(data.ps_ratio)
        fcf == OrZero(data.fcf)
        market_cap == OrZero(data.market_cap)
        \* ROA (max 15)
        roa_pct == to_pct_analyze(roa)
        roa_pts == ProportionalPts(roa_pct, 15, 20)
        roa_chk == <<Check("roa",
                       IF roa_pct >= 10 * Scale THEN "pass"
                       ELSE IF roa_pct >= 5 * Scale THEN "warn" ELSE "fail",
                       roa_pts, 15)>>
        \* ROE (max 15)
        roe_pct == to_pct_analyze(roe)
        roe_pts == ProportionalPts(roe_pct, 15, 20)
        roe_chk == <<Check("roe",
                       IF roe_pct >= 10 * Scale THEN "pass"
                       ELSE IF roe_pct >= 5 * Scale THEN "warn" ELSE "fail",
                       roe_pts, 15)>>
        \* Cash vs Debt (max 15): coverage = cash / debt
        debt_pts == IF debt > 0 THEN Clamp(15, Trunc(cash * 75, debt * 10))
                    ELSE IF cash > 0 THEN 15 ELSE 0
        debt_chk == <<Check("cash_debt",
                        IF debt > 0
                        THEN (IF cash >= debt THEN "pass"
                              ELSE IF 2 * cash >= debt THEN "warn" ELSE "fail")
                        ELSE IF cash > 0 THEN "pass" ELSE "warn",
                        debt_pts, 15)>>
        \* Fair value (max 20): only when price > 0 and fair_value > 0
        has_fv == p > 0 /\ fv.num > 0
        upside == UpsideOf(fv, p)
        value_pts == IF has_fv THEN Clamp(20, FracTrunc(upside, 4, 10)) ELSE 0
        value_chk == IF ~has_fv THEN <<>>
                     ELSE IF FracGt(upside, 30) THEN <<Check("fair_value", "pass", value_pts, 20)>>
                     ELSE IF FracGt(upside, 0) THEN <<Check("fair_value", "warn", value_pts, 20)>>
                     ELSE <<Check("fair_value", "fail", 0, 20)>>
        \* Profit margin (max 10)
        pm_pct == to_pct_analyze(profit_margin)
        pm_pts == ProportionalPts(pm_pct, 10, 25)
        pm_chk == IF pm_pct >= 15 * Scale THEN <<Check("profit_margin", "pass", pm_pts, 10)>>
                  ELSE IF pm_pct > 0 THEN <<Check("profit_margin", "warn", pm_pts, 10)>>
                  ELSE <<Check("profit_margin", "fail", 0, 10)>>
        \* P/S ratio (max 10): only when ps_ratio > 0
        ps_pts == IF ps_ratio > 0 THEN Clamp(10, Trunc((5 * Scale - ps_ratio) * 25, 10 * Scale)) ELSE 0
        ps_chk == IF ps_ratio <= 0 THEN <<>>
                  ELSE IF ps_ratio < 2 * Scale THEN <<Check("ps_ratio", "pass", ps_pts, 10)>>
                  ELSE IF ps_ratio < 4 * Scale THEN <<Check("ps_ratio", "warn", ps_pts, 10)>>
                  ELSE <<Check("ps_ratio", "fail", ps_pts, 10)>>
        \* FCF (max 15): fcf_yield = fcf / market_cap * 100
        fcf_pts == IF fcf > 0 /\ market_cap > 0 THEN Clamp(15, Trunc(fcf * 150, market_cap))
                   ELSE IF fcf > 0 THEN 10 ELSE 0
        fcf_chk == <<Check("fcf",
                       IF fcf > 0 /\ market_cap > 0
                       THEN (IF fcf * 100 >= 2 * market_cap THEN "pass" ELSE "warn")
                       ELSE IF fcf > 0 THEN "pass" ELSE "fail",
                       fcf_pts, 15)>>
    IN  [score  |-> roa_pts + roe_pts + debt_pts + value_pts + pm_pts + ps_pts + fcf_pts,
         checks |-> roa_chk \o roe_chk \o debt_chk \o value_chk \o pm_chk \o ps_chk \o fcf_chk]

\* the data dict build_stock_result hands to calculate_score
AnalyzeData(i, p, fv) ==
    [price |-> p, roa |-> i.returnOnAssets, roe |-> i.returnOnEquity,
     cash |-> safe_get(i.totalCash, 0), debt |-> safe_get(i.totalDebt, 0),
     profit_margin |-> i.profitMargins,
     ps_ratio |-> safe_get(i.priceToSalesTrailing12Months, 0),
     fcf |-> safe_get(i.freeCashflow, 0),
     market_cap |-> safe_get(i.marketCap, 0),
     fair_value |-> fv]

----------------------------------------------------------------------------
\* Scorers of the scan endpoint: (info, price, fair_value) -> score

FcfYieldPts_mut(fcf, market_cap, k10, cap) == 10

\* FCF yield points: max(0, min(cap, int(fcf / market_cap * 100 * k)))
FcfYieldPts(fcf, market_cap, k10, cap) == Clamp(cap, Trunc(fcf * 10 * k10, market_cap))

LowDebtPts_mut(debt_equity) ==
    IF debt_equity > 0 THEN Clamp(15, Trunc((2 * Scale - debt_equity) * 10, Scale))
    ELSE 10

\* Low debt points of the value and dividend profiles (max 15)
LowDebtPts(debt_equity) ==
    IF debt_equity >= 0 THEN Clamp(15, Trunc((2 * Scale - debt_equity) * 10, Scale))
    ELSE 10

calculate_score_scan(i, p, fv) ==
    LET roa == to_pct_scan(safe_get(i.returnOnAssets, 0))
        roe == to_pct_scan(safe_get(i.returnOnEquity, 0))
        cash == safe_get(i.totalCash, 0)
        debt == safe_get(i.totalDebt, 0)
        fcf == safe_get(i.freeCashflow, 0)
        pm == to_pct_scan(safe_get(i.profitMargins, 0))
        ps == safe_get(i.priceToSalesTrailing12Months, 0)
        market_cap == safe_get(i.marketCap, 0)
        roa_pts == ProportionalPts(roa, 15, 20)
        roe_pts == ProportionalPts(roe, 15, 20)
        debt_pts == IF debt > 0 THEN Clamp(15, Trunc(cash * 75, debt * 10))
                    ELSE IF cash > 0 THEN 15 ELSE 0
        value_pts == IF p > 0 /\ fv.num > 0
                     THEN Clamp(20, FracTrunc(UpsideOf(fv, p), 4, 10)) ELSE 0
        pm_pts == ProportionalPts(pm, 10, 25)
        ps_pts == IF ps > 0 THEN Clamp(10, Trunc((5 * Scale - ps) * 25, 10 * Scale)) ELSE 0
        fcf_pts == IF fcf > 0 /\ market_cap > 0 THEN FcfYieldPts(fcf, market_cap, 15, 15)
                   ELSE IF fcf > 0 THEN 10 ELSE 0
    IN  Min(roa_pts + roe_pts + debt_pts + value_pts + pm_pts + ps_pts + fcf_pts, 100)

\* points of the criteria of calculate_score_value, in source order
value_criteria(i, p, fv) ==
    LET pe == safe_get(i.trailingPE, 0)
        pb == safe_get(i.priceToBook, 0)
        div_yield == to_pct_scan(safe_get(i.dividendYield, 0))
        debt_equity == safe_get(i.debtToEquity, 0)
        fcf == safe_get(i.freeCashflow, 0)
        market_cap == safe_get(i.marketCap, 0)
        pe_pts == IF pe > 0 THEN Clamp(25, Trunc((30 * Scale - pe) * 125, 100 * Scale)) ELSE 10
        pb_pts == IF pb > 0 THEN Clamp(20, Trunc((3 * Scale - pb) * 10, Scale)) ELSE 0
        div_pts == Clamp(20, Trunc(div_yield * 5, Scale))
        fcf_pts == IF fcf > 0 /\ market_cap > 0 THEN FcfYieldPts(fcf, market_cap, 20, 20) ELSE 0
    IN  <<pe_pts, pb_pts, div_pts, LowDebtPts(debt_equity), fcf_pts>>

calculate_score_value(i, p, fv) == Min(SumSeq(value_criteria(i, p, fv)), 100)

\* points of the criteria of calculate_score_growth, in source order
growth_criteria(i, p, fv) ==
    LET rev_growth == to_pct_scan(safe_get(i.revenueGrowth, 0))
        earn_growth == to_pct_scan(safe_get(i.earningsGrowth, 0))
        eps_growth == to_pct_scan(safe_get(i.earningsQuarterlyGrowth, 0))
        roe == to_pct_scan(safe_get(i.returnOnEquity, 0))
        pm == to_pct_scan(safe_get(i.profitMargins, 0))
        rev_pts == Clamp(30, Trunc(rev_growth * 15, 10 * Scale))
        earn_pts == IF earn_growth # 0 THEN Clamp(25, Trunc(earn_growth, Scale))
                    ELSE IF eps_growth # 0 THEN Clamp(25, Trunc(eps_growth, Scale))
                    ELSE 0
        roe_pts == Clamp(20, Trunc(roe, Scale))
        pm_pts == Clamp(15, Trunc(pm * 75, 100 * Scale))
        momentum == IF fv.num > p * fv.den THEN 10 ELSE 0
    IN  <<rev_pts, earn_pts, roe_pts, pm_pts, momentum>>

calculate_score_growth(i, p, fv) == Min(SumSeq(growth_criteria(i, p, fv)), 100)

\* points of the criteria of calculate_score_quality, in source order
quality_criteria(i, p, fv) ==
    LET roic == to_pct_scan(safe_get(i.returnOnEquity, 0))
        roa == to_pct_scan(safe_get(i.returnOnAssets, 0))
        pm == to_pct_scan(safe_get(i.profitMargins, 0))
        gm == to_pct_scan(safe_get(i.grossMargins, 0))
        fcf == safe_get(i.freeCashflow, 0)
        market_cap == safe_get(i.marketCap, 0)
        roic_pts == Clamp(25, Trunc(roic * 125, 100 * Scale))
        roa_pts == Clamp(15, Trunc(roa, Scale))
        gm_pts == Clamp(20, Trunc(gm * 4, 10 * Scale))
        pm_pts == Clamp(20, Trunc(pm, Scale))
        fcf_pts == IF fcf > 0 /\ market_cap > 0 THEN FcfYieldPts(fcf, market_cap, 20, 20) ELSE 0
    IN  <<roic_pts, roa_pts, gm_pts, pm_pts, fcf_pts>>

calculate_score_quality(i, p, fv) == Min(SumSeq(quality_criteria(i, p, fv)), 100)

\* points of the criteria of calculate_score_dividend, in source order
dividend_criteria(i, p, fv) ==
    LET div_yield == to_pct_scan(safe_get(i.dividendYield, 0))
        payout == to_pct_scan(safe_get(i.payoutRatio, 0))
        fcf == safe_get(i.freeCashflow, 0)
        debt_equity == safe_get(i.debtToEquity, 0)
        pm == to_pct_scan(safe_get(i.profitMargins, 0))
        div_pts == Clamp(25, Trunc(div_yield * 5, Scale))
        payout_pts == IF 30 * Scale <= payout /\ payout <= 60 * Scale THEN 25
                      ELSE IF (20 * Scale <= payout /\ payout < 30 * Scale)
                              \/ (60 * Scale < payout /\ payout <= 75 * Scale) THEN 15
                      ELSE IF payout > 0 /\ payout < 80 * Scale THEN 10
                      ELSE 0
        fcf_pts == IF fcf > 0 THEN 20 ELSE 0
        pm_pts == Clamp(15, Trunc(pm * 75, 100 * Scale))
    IN  <<div_pts, payout_pts, fcf_pts, LowDebtPts(debt_equity), pm_pts>>

calculate_score_dividend(i, p, fv) == Min(SumSeq(dividend_criteria(i, p, fv)), 100)

get_score_for_algo_mut(i, p, fv, name) ==
    IF name = "value" THEN calculate_score_value(i, p, fv)
    ELSE IF name = "growth" THEN calculate_score_growth(i, p, fv)
    ELSE IF name = "quality" THEN calculate_score_quality(i, p, fv)
    ELSE calculate_score_scan(i, p, fv)

get_score_for_algo(i, p, fv, name) ==
    IF name = "value" THEN calculate_score_value(i, p, fv)
    ELSE IF name = "growth" THEN calculate_score_growth(i, p, fv)
    ELSE IF name = "quality" THEN calculate_score_quality(i, p, fv)
    ELSE IF name = "dividend" THEN calculate_score_dividend(i, p, fv)
    ELSE calculate_score_scan(i, p, fv)

----------------------------------------------------------------------------
\* Cliff-edge scorers

\* upside tier: > 30 -> 20, > 10 -> 10, > 0 -> 5, else 0
UpsideTierPts(fv, p) ==
    IF p > 0 /\ fv.num > 0
    THEN LET upside == UpsideOf(fv, p)
         IN  IF FracGt(upside, 30) THEN 20
             ELSE IF FracGt(upside, 10) THEN 10
             ELSE IF FracGt(upside, 0) THEN 5
             ELSE 0
    ELSE 0

\* return tier on a percentage: > 10 -> 15, > 5 -> 7, else 0
ReturnTierPts(pct) ==
    IF pct > 10 * Scale THEN 15 ELSE IF pct > 5 * Scale THEN 7 ELSE 0

\* margin tier on a percentage: > 15 -> 10, > 5 -> 5, else 0
MarginTierPts(pct) ==
    IF pct > 15 * Scale THEN 10 ELSE IF pct > 5 * Scale THEN 5 ELSE 0

\* _utils.calculate_investment_score (and its copy in app.py); the data
\* fields roa, roe and profit_margin are already percentages
calculate_investment_score(data) ==
    LET roa == OrZero(data.roa)
        roe == OrZero(data.roe)
        cash == OrZero(data.cash)
        debt == OrZero(data.debt)
        p == OrZero(data.price)
        fv == IF data.fair_value.num = 0 THEN Frac(p) ELSE data.fair_value
        profit_margin == OrZero(data.profit_margin)
        ps_ratio == OrZero(data.ps_ratio)
        fcf == OrZero(data.fcf)
    IN  ReturnTierPts(roa) + ReturnTierPts(roe)
        + (IF cash >= debt THEN 15 ELSE 0)
        + UpsideTierPts(fv, p)
        + MarginTierPts(profit_margin)
        + (IF 0 < ps_ratio /\ ps_ratio < 2 * Scale THEN 10 ELSE 0)
        + (IF fcf > 0 THEN 15 ELSE 0)

\* discover.calculate_score(data): raw ratios, normalized inside
calculate_score_discover(data) ==
    LET roa == OrZero(data.roa)
        roe == OrZero(data.roe)
        cash == OrZero(data.cash)
        debt == OrZero(data.debt)
        p == OrZero(data.price)
        fv == IF data.fair_value.num = 0 THEN Frac(p) ELSE data.fair_value
        profit_margin == OrZero(data.profit_margin)
        ps_ratio == OrZero(data.ps_ratio)
        fcf == OrZero(data.fcf)
    IN  Min(ReturnTierPts(to_pct_discover(roa)) + ReturnTierPts(to_pct_discover(roe))
            + (IF cash > 0 /\ cash >= debt THEN 15 ELSE 0)
            + UpsideTierPts(fv, p)
            + MarginTierPts(to_pct_discover(profit_margin))
            + (IF ps_ratio > 0 /\ ps_ratio < 2 * Scale THEN 10 ELSE 0)
            + (IF fcf > 0 THEN 15 ELSE 0), 100)

----------------------------------------------------------------------------
\* Fair value estimator.  A method output is an integer number of
\* 1/FVDen price units; info.sector is the sector label as a sequence of
\* words (<<>> when missing), so that 'Technology' in str(sector) is a
\* membership test.

FVDen == 10 * Scale

InSector(word, sector) == \E k \in 1..Len(sector) : sector[k] = word

\* 1. analyst consensus target
TargetMethod(i) ==
    LET target_price == safe_get(i.targetMeanPrice, 0)
    IN  IF target_price > 0
        THEN <<[label |-> "Analyst Consensus Target", fv |-> target_price * FVDen]>>
        ELSE <<>>

\* 2. forward P/E model: eps * min(forward_pe * 1.2, 30)
ForwardPEMethod(i) ==
    LET eps == safe_get(i.trailingEps, 0)
        forward_pe == safe_get(i.forwardPE, 0)
    IN  IF forward_pe > 0 /\ eps > 0
        THEN <<[label |-> "Forward PE Model", fv |-> eps * Min(12 * forward_pe, 30 * FVDen)]>>
        ELSE <<>>

\* 3. PEG model: growth_pct = eg * 100 if eg < 1 else eg; eps * min(growth_pct, 40)
PEGMethod(i) ==
    LET eps == safe_get(i.trailingEps, 0)
        eg == i.earningsGrowth
        fv == IF eg < Scale THEN eps * Min(eg, 40) * FVDen
              ELSE eps * Min(eg, 40 * Scale) * (FVDen \div Scale)
    IN  IF eg # None /\ eg > 0 /\ eps > 0 /\ fv > 0
        THEN <<[label |-> "PEG Model", fv |-> fv]>>
        ELSE <<>>

\* 4. trailing P/E: price * 1.1 below 25, price * 0.95 above 25
TrailingPEMethod(i, p) ==
    LET pe == safe_get(i.trailingPE, 0)
    IN  IF pe > 0 /\ pe < 25 * Scale /\ p > 0
        THEN <<[label |-> "Low PE Premium", fv |-> p * 11 * (FVDen \div 10)]>>
        ELSE IF pe > 25 * Scale /\ p > 0
        THEN <<[label |-> "High PE Discount", fv |-> p * 95 * (FVDen \div 100)]>>
        ELSE <<>>

SectorMethod_mut(i, fired) ==
    LET eps == safe_get(i.trailingEps, 0)
        mult == IF InSector("Technology", i.sector) THEN 25
                ELSE IF InSector("Consumer", i.sector) THEN 20
                ELSE 18
    IN  IF eps > 0
        THEN <<[label |-> "Sector PE Model", fv |-> eps * mult * FVDen]>>
        ELSE <<>>

\* 5. sector multiple, only when nothing fired before
SectorMethod(i, fired) ==
    LET eps == safe_get(i.trailingEps, 0)
        mult == IF InSector("Technology", i.sector) THEN 25
                ELSE IF InSector("Consumer", i.sector) THEN 20
                ELSE 18
    IN  IF eps > 0 /\ fired = <<>>
        THEN <<[label |-> "Sector PE Model", fv |-> eps * mult * FVDen]>>
        ELSE <<>>

BlendFairValues_mut(methods, p) ==
    IF methods # <<>>
    THEN [num |-> SumSeq([k \in 1..Len(methods) |-> methods[k].fv]),
          den |-> 5 * FVDen]
    ELSE Frac(p)

\* sum(fair_values) / len(fair_values) if fair_values else price
BlendFairValues(methods, p) ==
    IF methods # <<>>
    THEN [num |-> SumSeq([k \in 1..Len(methods) |-> methods[k].fv]),
          den |-> Len(methods) * FVDen]
    ELSE Frac(p)

\* the methods in the order the code evaluates them
FairValueMethods(i, p) ==
    LET first4 == TargetMethod(i) \o ForwardPEMethod(i) \o PEGMethod(i) \o TrailingPEMethod(i, p)
    IN  first4 \o SectorMethod(i, first4)

\* ((fair_value - price) / price * 100) if price > 0 else 0
UpsideOrZero(fv, p) == IF p > 0 THEN UpsideOf(fv, p) ELSE Frac(0)

\* round(f, 1) of a fraction, in tenths
Round1(f) == RoundDiv(f.num * 10, f.den)

\* round(f, 2) of a fraction, in hundredths
Round2(f) == RoundDiv(f.num * 100, f.den)

\* scan.calculate_fair_value(info, price)
calculate_fair_value_scan(i, p) == BlendFairValues(FairValueMethods(i, p), p)

\* discover.calculate_fair_value(info, price)
calculate_fair_value_discover(i, p) == BlendFairValues(FairValueMethods(i, p), p)

\* the fair-value part of analyze's build_stock_result: fair_values,
\* fair_value_components (label, round(value, 2)) and the blended value
FairValueAnalyze(i, p) ==
    LET methods == FairValueMethods(i, p)
    IN  [fair_values |-> [k \in 1..Len(methods) |-> methods[k].fv],
         fair_value_components |->
             [k \in 1..Len(methods) |->
                 [label |-> methods[k].label,
                  value |-> Round2([num |-> methods[k].fv, den |-> FVDen])]],
         fair_value |-> BlendFairValues(methods, p)]

----------------------------------------------------------------------------
\* Recommendation classifier: get_recommendation(score, upside), upside a
\* fraction; the three copies of the decision table

get_recommendation_utils_mut(score, upside) ==
    IF score >= 70 /\ FracGt(upside, 30) THEN "STRONG BUY"
    ELSE IF score >= 60 /\ FracGt(upside, 15) THEN "BUY"
    ELSE IF score >= 50 /\ score < 60 /\ FracGt(upside, 0) THEN "HOLD"
    ELSE IF score >= 40 THEN "WATCH"
    ELSE "AVOID"

get_recommendation_utils(score, upside) ==
    IF score >= 70 /\ FracGt(upside, 30) THEN "STRONG BUY"
    ELSE IF score >= 60 /\ FracGt(upside, 15) THEN "BUY"
    ELSE IF score >= 50 /\ FracGt(upside, 0) THEN "HOLD"
    ELSE IF score >= 40 THEN "WATCH"
    ELSE "AVOID"

get_recommendation_analyze_mut(score, upside) ==
    IF score >= 70 /\ FracGt(upside, 30) THEN "STRONG BUY"
    ELSE IF score >= 60 /\ FracGt(upside, 15) THEN "BUY"
    ELSE IF score >= 50 /\ FracGe(upside, 0) THEN "HOLD"
    ELSE IF score >= 40 THEN "WATCH"
    ELSE "AVOID"

get_recommendation_analyze(score, upside) ==
    IF score >= 70 /\ FracGt(upside, 30) THEN "STRONG BUY"
    ELSE IF score >= 60 /\ FracGt(upside, 15) THEN "BUY"
    ELSE IF score >= 50 /\ FracGt(upside, 0) THEN "HOLD"
    ELSE IF score >= 40 THEN "WATCH"
    ELSE "AVOID"

get_recommendation_app(score, upside) ==
    IF score >= 70 /\ FracGt(upside, 30) THEN "STRONG BUY"
    ELSE IF score >= 60 /\ FracGt(upside, 15) THEN "BUY"
    ELSE IF score >= 50 /\ FracGt(upside, 0) THEN "HOLD"
    ELSE IF score >= 40 THEN "WATCH"
    ELSE "AVOID"

----------------------------------------------------------------------------
\* Sticker price: growth-rate resolution of calculate_sticker_price.
\* A growth rate is a fraction; Unavailable stands for the None result.

Unavailable == [available |-> FALSE]

\* eg_f if eg_f < 1 else eg_f / 100   (g in hundredths)
GrowthFraction(g) ==
    IF g < Scale THEN [num |-> g, den |-> Scale] ELSE [num |-> g, den |-> 100 * Scale]

\* the three sources in order; <<>> when none yields a rate
ResolveGrowth_mut(i, eps) ==
    LET eg == i.earningsGrowth
        fwd == safe_get(i.forwardEps, 0)
        rg == i.revenueGrowth
    IN  IF fwd # 0 /\ eps # 0 /\ fwd > eps
        THEN <<[source |-> "forward EPS growth", rate |-> [num |-> fwd - eps, den |-> eps]]>>
        ELSE IF eg # None /\ eg > 0
        THEN <<[source |-> "analyst earnings est.", rate |-> GrowthFraction(eg)]>>
        ELSE IF rg # None /\ rg > 0
        THEN <<[source |-> "revenue growth", rate |-> GrowthFraction(rg)]>>
        ELSE <<>>

ResolveGrowth(i, eps) ==
    LET eg == i.earningsGrowth
        fwd == safe_get(i.forwardEps, 0)
        rg == i.revenueGrowth
    IN  IF eg # None /\ eg > 0
        THEN <<[source |-> "analyst earnings est.", rate |-> GrowthFraction(eg)]>>
        ELSE IF fwd # 0 /\ eps # 0 /\ fwd > eps
        THEN <<[source |-> "forward EPS growth", rate |-> [num |-> fwd - eps, den |-> eps]]>>
        ELSE IF rg # None /\ rg > 0
        THEN <<[source |-> "revenue growth", rate |-> GrowthFraction(rg)]>>
        ELSE <<>>

\* min(growth_rate, 0.30)
CapGrowth(rate) == IF rate.num * 10 > 3 * rate.den THEN [num |-> 3, den |-> 10] ELSE rate

FuturePE_mut(rate) == [num |-> 200 * rate.num, den |-> rate.den]

\* min(2 * growth_rate * 100, 50)
FuturePE(rate) == IF 200 * rate.num > 50 * rate.den THEN Frac(50)
                  ELSE [num |-> 200 * rate.num, den |-> rate.den]

\* the figures of the sticker price before any rounding, for trailing EPS
\* eps > 0 and the capped growth rate g; the compound figures are long
\* fractions [num, den]:
\*   future_eps = eps * (1 + g) ** 10, future_pe = min(2 * g * 100, 50),
\*   future_price = future_eps * future_pe,
\*   sticker_price = future_price / 1.15 ** 10, mos_price = sticker_price / 2
StickerFigures(eps, g) ==
    LET up == BigPow(BigFromInt(g.den + g.num), 10)
        down == BigPow(BigFromInt(g.den), 10)
        future_pe == FuturePE(g)
        future_eps == [num |-> BigMul(BigFromInt(eps), up), den |-> down]
        future_price == [num |-> BigMul(future_eps.num, BigFromInt(future_pe.num)),
                         den |-> BigMul(future_eps.den, BigFromInt(future_pe.den))]
        sticker_price == [num |-> BigMul(future_price.num, BigPow(<<20>>, 10)),
                          den |-> BigMul(future_price.den, BigPow(<<23>>, 10))]
    IN  [growth_rate |-> g,
         future_eps |-> future_eps,
         future_pe |-> future_pe,
         future_price |-> future_price,
         sticker_price |-> sticker_price,
         mos_price |-> [num |-> sticker_price.num, den |-> BigMul(sticker_price.den, <<2>>)]]

\* round(f, 2) of a long fraction, in hundredths
BigRound2(f) == BigRoundDiv(BigMul(f.num, <<100>>), f.den)

\* p <= f for a price p >= 0 and a long fraction f
PriceLeq(p, f) == BigLeq(BigMul(BigFromInt(p), f.den), f.num)

Verdict_mut(p, figures) ==
    IF PriceLeq(p, figures.mos_price) /\ ~PriceLeq(p + 1, figures.mos_price) THEN "FAIR VALUE"
    ELSE IF PriceLeq(p, figures.mos_price) THEN "ON SALE"
    ELSE IF PriceLeq(p, figures.sticker_price) THEN "FAIR VALUE"
    ELSE "OVERPRICED"

\* the verdict of analyze's calculate_sticker_price
Verdict(p, figures) ==
    IF PriceLeq(p, figures.mos_price) THEN "ON SALE"
    ELSE IF PriceLeq(p, figures.sticker_price) THEN "FAIR VALUE"
    ELSE "OVERPRICED"

\* analyze.calculate_sticker_price(info, price): the returned record with
\* its rounded fields (growth_rate and future_pe in tenths, the prices in
\* hundredths); growth and figures keep the values before rounding
calculate_sticker_price_analyze(i, p) ==
    LET eps == safe_get(i.trailingEps, 0)
        g == ResolveGrowth(i, eps)
    IN  IF eps = 0 \/ eps <= 0 THEN Unavailable
        ELSE IF g = <<>> \/ g[1].rate.num <= 0 THEN Unavailable
        ELSE LET growth_rate == CapGrowth(g[1].rate)
                 figures == StickerFigures(eps, growth_rate)
             IN  [available |-> TRUE,
                  eps |-> eps,
                  growth |-> growth_rate,
                  figures |-> figures,
                  growth_rate |-> Round1([num |-> growth_rate.num * 100, den |-> growth_rate.den]),
                  growth_source |-> g[1].source,
                  future_eps |-> BigRound2(figures.future_eps),
                  future_pe |-> Round1(figures.future_pe),
                  future_price |-> BigRound2(figures.future_price),
                  sticker_price |-> BigRound2(figures.sticker_price),
                  mos_price |-> BigRound2(figures.mos_price),
                  current_price |-> p * 100,
                  verdict |-> Verdict(p, figures)]

\* recommend.calculate_sticker_price(info, price): same resolution and
\* figures; the record holds sticker, mos_price and growth_rate only
calculate_sticker_price_recommend(i, p) ==
    LET eps == safe_get(i.trailingEps, 0)
        g == ResolveGrowth(i, eps)
    IN  IF eps = 0 \/ eps <= 0 THEN Unavailable
        ELSE IF g = <<>> \/ g[1].rate.num <= 0 THEN Unavailable
        ELSE LET growth_rate == CapGrowth(g[1].rate)
                 figures == StickerFigures(eps, growth_rate)
             IN  [available |-> TRUE,
                  eps |-> eps,
                  growth |-> growth_rate,
                  figures |-> figures,
                  sticker |-> BigRound2(figures.sticker_price),
                  mos_price |-> BigRound2(figures.mos_price),
                  growth_rate |-> Round1([num |-> growth_rate.num * 100, den |-> growth_rate.den])]

----------------------------------------------------------------------------
\* Cliff-edge scorer of the recommend endpoint: rule1_score(info, price).
\* Its fair value blends the first three methods only.

rule1_score(i, p) ==
    LET roa == to_pct_recommend(i.returnOnAssets)
        roe == to_pct_recommend(i.returnOnEquity)
        cash == safe_get(i.totalCash, 0)
        debt == safe_get(i.totalDebt, 0)
        sticker_data == calculate_sticker_price_recommend(i, p)
        fv == BlendFairValues(TargetMethod(i) \o ForwardPEMethod(i) \o PEGMethod(i), p)
        has_fv == p > 0 /\ fv.num > 0
        pm == to_pct_recommend(i.profitMargins)
        ps == safe_get(i.priceToSalesTrailing12Months, 0)
        fcf == safe_get(i.freeCashflow, 0)
        score == (IF roa # None THEN ReturnTierPts(roa) ELSE 0)
                 + (IF roe # None THEN ReturnTierPts(roe) ELSE 0)
                 + (IF cash > 0 /\ cash >= debt THEN 15 ELSE 0)
                 + UpsideTierPts(fv, p)
                 + (IF pm # None THEN MarginTierPts(pm) ELSE 0)
                 + (IF ps > 0 /\ ps < 2 * Scale THEN 10 ELSE 0)
                 + (IF fcf # 0 /\ fcf > 0 THEN 15 ELSE 0)
    IN  [score |-> Min(score, 100),
         roe |-> roe,
         growth_rate |-> IF sticker_data.available THEN sticker_data.growth_rate ELSE None,
         upside |-> IF has_fv THEN Round1(UpsideOf(fv, p)) ELSE 0]

\* app.analyze_stock: the analysis_data handed to calculate_investment_score;
\* the ratios are multiplied by 100 when the fundamentals are read
AppData(i, p, fv) ==
    [price |-> p,
     roa |-> OrZero(i.returnOnAssets) * 100,
     roe |-> OrZero(i.returnOnEquity) * 100,
     cash |-> OrZero(i.totalCash), debt |-> OrZero(i.totalDebt),
     profit_margin |-> OrZero(i.profitMargins) * 100,
     ps_ratio |-> OrZero(i.priceToSalesTrailing12Months),
     fcf |-> OrZero(i.freeCashflow),
     fair_value |-> fv]

\* discover.do_GET: the score_data handed to calculate_score
DiscoverData(i, p, fv) ==
    [roa |-> i.returnOnAssets, roe |-> i.returnOnEquity,
     cash |-> safe_get(i.totalCash, 0), debt |-> safe_get(i.totalDebt, 0),
     price |-> p, fair_value |-> fv,
     profit_margin |-> i.profitMargins,
     ps_ratio |-> safe_get(i.priceToSalesTrailing12Months, 0),
     fcf |-> safe_get(i.freeCashflow, 0)]

----------------------------------------------------------------------------
\* Provider records

\* a record with every field missing
NoInfo ==
    [returnOnAssets |-> None, returnOnEquity |-> None, totalCash |-> None,
     totalDebt |-> None, freeCashflow |-> None, profitMargins |-> None,
     priceToSalesTrailing12Months |-> None, marketCap |-> None,
     trailingPE |-> None, priceToBook |-> None, dividendYield |-> None,
     debtToEquity |-> None, revenueGrowth |-> None, earningsGrowth |-> None,
     earningsQuarterlyGrowth |-> None, grossMargins |-> None,
     payoutRatio |-> None, trailingEps |-> None, forwardEps |-> None,
     forwardPE |-> None, targetMeanPrice |-> None, sector |-> <<>>,
     netIncomeToCommon |-> None, bookValue |-> None, sharesOutstanding |-> None,
     totalRevenue |-> None]

\* no watchlist was posted
NoProfile == [count |-> 0]

\* no batch in progress
\* the Flask app is not part of the run
NoApp == cache = <<>> /\ keys = <<>> /\ now = 0

NoBatch ==
    /\ watchlist = <<>> /\ profile = NoProfile
    /\ tickers = 0 /\ provider = <<>> /\ candidates = <<>>
    /\ NoApp
    /\ idx = 0 /\ opportunities = <<>> /\ response = <<>>

\* nothing returned yet
NoResult == [kind |-> "none"]

----------------------------------------------------------------------------
\* Specification SpecPct: to_pct of each endpoint applied to a raw ratio

\* largest raw ratio tried, in hundredths (25.00)
MaxRatio == 2500

InitPct ==
    /\ pc = "call"
    /\ endpoint \in {"analyze", "scan", "discover", "recommend"}
    /\ algo = "default"
    /\ \E v \in (-MaxRatio..MaxRatio) \cup {None} :
           info = [NoInfo EXCEPT !.returnOnAssets = v]
    /\ price = 0
    /\ fair_value = Frac(0)
    /\ result = NoResult
    /\ NoBatch

Returned(kind, value) ==
    /\ pc' = "done"
    /\ result' = [kind |-> kind, value |-> value]
    /\ UNCHANGED <<endpoint, algo, info, price, fair_value,
                   watchlist, profile, tickers, provider, candidates, idx, opportunities, response,
                   cache, keys, now>>

ToPctAnalyze ==
    /\ pc = "call" /\ endpoint = "analyze"
    /\ Returned("to_pct", to_pct_analyze(info.returnOnAssets))

ToPctScan ==
    /\ pc = "call" /\ endpoint = "scan"
    /\ Returned("to_pct", to_pct_scan(info.returnOnAssets))

ToPctDiscover ==
    /\ pc = "call" /\ endpoint = "discover"
    /\ Returned("to_pct", to_pct_discover(info.returnOnAssets))

ToPctRecommend ==
    /\ pc = "call" /\ endpoint = "recommend"
    /\ Returned("to_pct", to_pct_recommend(info.returnOnAssets))

NextPct == ToPctAnalyze \/ ToPctScan \/ ToPctDiscover \/ ToPctRecommend

SpecPct == InitPct /\ [][NextPct]_vars

\* the raw ratio to_pct was applied to
PctArg == info.returnOnAssets

PctDone == pc = "done" /\ result.kind = "to_pct"

\* C4: for every numeric v, to_pct(v) is v when abs(v) > 10 and v * 100
\* otherwise; for a missing value analyze, scan and discover return 0 and
\* recommend returns None.
C4_ToPctRule ==
    PctDone =>
        IF PctArg = None
        THEN result.value = (IF endpoint = "recommend" THEN None ELSE 0)
        ELSE IF Abs(PctArg) > 10 * Scale
        THEN result.value = PctArg
        ELSE result.value = PctArg * 100

C4_Witness == PctDone /\ endpoint = "recommend" /\ PctArg = None /\ result.value = None

\* C5 as stated: to_pct(10.0) returns 10.0 unchanged, to_pct(0.10) returns
\* 10.0 and to_pct(24.4) returns 24.4 (analyze and discover).
C5_BoundaryUnchanged ==
    (PctDone /\ endpoint \in {"analyze", "discover"}) =>
        /\ (PctArg = 10 * Scale => result.value = 10 * Scale)
        /\ (PctArg = 10 => result.value = 10 * Scale)
        /\ (PctArg = 2440 => result.value = 2440)

\* C5 amended: to_pct(10.0) returns 1000.0, because 10.0 is not strictly
\* greater than 10 and is therefore multiplied by 100; to_pct(0.10) returns
\* 10.0 and to_pct(24.4) returns 24.4.
C5_BoundaryScaled ==
    (PctDone /\ endpoint \in {"analyze", "discover"}) =>
        /\ (PctArg = 10 * Scale => result.value = 1000 * Scale)
        /\ (PctArg = 10 => result.value = 10 * Scale)
        /\ (PctArg = 2440 => result.value = 2440)

C5_Witness == PctDone /\ endpoint = "analyze" /\ PctArg = 10 * Scale /\ result.value = 1000 * Scale

----------------------------------------------------------------------------
\* Specification SpecRec: get_recommendation of _utils, analyze and app
\* applied to a scored analysis (investment_score, upside in tenths of a
\* percent)

\* largest upside tried, in tenths of a percent
MaxUpside == 360

Signals == {"STRONG BUY", "BUY", "HOLD", "WATCH", "AVOID"}

InitRec ==
    /\ pc = "scored"
    /\ endpoint \in {"utils", "analyze", "app"}
    /\ algo = "default"
    /\ info = NoInfo
    /\ price = 0
    /\ fair_value = Frac(0)
    /\ \E sc \in 0..100, u \in -MaxUpside..MaxUpside :
           result = [kind |-> "scored", investment_score |-> sc,
                     upside |-> [num |-> u, den |-> 10]]
    /\ NoBatch

Recommended(signal) ==
    /\ pc' = "done"
    /\ result' = [kind |-> "recommendation",
                  investment_score |-> result.investment_score,
                  upside |-> result.upside,
                  recommendation |-> signal]
    /\ UNCHANGED <<endpoint, algo, info, price, fair_value,
                   watchlist, profile, tickers, provider, candidates, idx, opportunities, response,
                   cache, keys, now>>

RecommendUtils ==
    /\ pc = "scored" /\ endpoint = "utils"
    /\ Recommended(get_recommendation_utils(result.investment_score, result.upside))

RecommendAnalyze ==
    /\ pc = "scored" /\ endpoint = "analyze"
    /\ Recommended(get_recommendation_analyze(result.investment_score, result.upside))

RecommendApp ==
    /\ pc = "scored" /\ endpoint = "app"
    /\ Recommended(get_recommendation_app(result.investment_score, result.upside))

NextRec == RecommendUtils \/ RecommendAnalyze \/ RecommendApp

SpecRec == InitRec /\ [][NextRec]_vars

RecDone == pc = "done" /\ result.kind = "recommendation"

\* C2: get_recommendation is the top-down decision table (score >= 70 and
\* upside > 30) -> STRONG BUY, (>= 60, > 15) -> BUY, (>= 50, > 0) -> HOLD,
\* score >= 40 -> WATCH, else AVOID; every pair yields one signal, the three
\* implementations agree, and (75,35), (55,5), (20,-10) give STRONG BUY,
\* HOLD, AVOID.
C2_DecisionTable ==
    RecDone =>
        LET sc == result.investment_score
            u == result.upside
            expected == IF sc >= 70 /\ u.num > 30 * u.den THEN "STRONG BUY"
                        ELSE IF sc >= 60 /\ u.num > 15 * u.den THEN "BUY"
                        ELSE IF sc >= 50 /\ u.num > 0 THEN "HOLD"
                        ELSE IF sc >= 40 THEN "WATCH"
                        ELSE "AVOID"
        IN  /\ result.recommendation \in Signals
            /\ result.recommendation = expected
            /\ get_recommendation_utils(sc, u) = expected
            /\ get_recommendation_analyze(sc, u) = expected
            /\ get_recommendation_app(sc, u) = expected
            /\ (sc = 75 /\ u.num = 350 => result.recommendation = "STRONG BUY")
            /\ (sc = 55 /\ u.num = 50 => result.recommendation = "HOLD")
            /\ (sc = 20 /\ u.num = -100 => result.recommendation = "AVOID")

C2_Witness ==
    /\ RecDone /\ endpoint = "app"
    /\ result.investment_score = 55 /\ result.upside.num = 50
    /\ result.recommendation = "HOLD"

----------------------------------------------------------------------------
\* Specification SpecScore: every scorer applied to a provider record, a
\* price and a fair value

\* a pathologically large raw ratio, in hundredths (1000.00)
BigRatio == 100000

\* a pathologically large cash figure, price or fair value
BigMoney == 100000

Algos == {"value", "growth", "quality", "dividend"}

\* inputs of the seven-criterion scorers (proportional and cliff-edge)
SevenCriteriaInputs ==
    /\ \E roa \in {None, -BigRatio, 0, 7, BigRatio},
          roe \in {None, 12, BigRatio},
          pm \in {None, -BigRatio, 20},
          cash \in {None, -BigMoney, 3, BigMoney},
          debt \in {None, -BigMoney, 2, BigMoney},
          ps \in {None, 50, BigRatio},
          fcf \in {None, -BigMoney, 1, BigMoney},
          cap \in {None, 10} :
           info = [NoInfo EXCEPT !.returnOnAssets = roa, !.returnOnEquity = roe,
                                 !.profitMargins = pm, !.totalCash = cash,
                                 !.totalDebt = debt,
                                 !.priceToSalesTrailing12Months = ps,
                                 !.freeCashflow = fcf, !.marketCap = cap]
    /\ price \in {0, 10}
    /\ fair_value \in {Frac(-BigMoney), Frac(10), Frac(12), Frac(BigMoney)}

ValueInputs ==
    /\ \E pe \in {None, -BigRatio, 500, 1500, BigRatio},
          pb \in {None, -BigRatio, 50, 100, BigRatio},
          dy \in {None, -BigRatio, 3, BigRatio},
          de \in {None, -BigRatio, 50, BigRatio},
          fcf \in {None, -BigMoney, 1, BigMoney},
          cap \in {None, 10} :
           info = [NoInfo EXCEPT !.trailingPE = pe, !.priceToBook = pb,
                                 !.dividendYield = dy, !.debtToEquity = de,
                                 !.freeCashflow = fcf, !.marketCap = cap]
    /\ price = 10
    /\ fair_value = Frac(10)

GrowthInputs ==
    /\ \E rg \in {None, -BigRatio, 10, BigRatio},
          eg \in {None, 0, 20, BigRatio},
          qg \in {None, 15, BigRatio},
          roe \in {None, 12, BigRatio},
          pm \in {None, 20, BigRatio} :
           info = [NoInfo EXCEPT !.revenueGrowth = rg, !.earningsGrowth = eg,
                                 !.earningsQuarterlyGrowth = qg,
                                 !.returnOnEquity = roe, !.profitMargins = pm]
    /\ price \in {0, 10}
    /\ fair_value \in {Frac(10), Frac(BigMoney)}

QualityInputs ==
    /\ \E roe \in {None, -BigRatio, 12, BigRatio},
          roa \in {None, -BigRatio, 7, BigRatio},
          gm \in {None, 40, BigRatio},
          pm \in {None, 20, BigRatio},
          fcf \in {None, -BigMoney, 1, BigMoney},
          cap \in {None, 10} :
           info = [NoInfo EXCEPT !.returnOnEquity = roe, !.returnOnAssets = roa,
                                 !.grossMargins = gm, !.profitMargins = pm,
                                 !.freeCashflow = fcf, !.marketCap = cap]
    /\ price = 10
    /\ fair_value = Frac(10)

DividendInputs ==
    /\ \E dy \in {None, -BigRatio, 3, BigRatio},
          po \in {None, 25, 45, 70, 78, BigRatio},
          fcf \in {None, -BigMoney, 1},
          de \in {None, -BigRatio, 50, BigRatio},
          pm \in {None, 20, BigRatio} :
           info = [NoInfo EXCEPT !.dividendYield = dy, !.payoutRatio = po,
                                 !.freeCashflow = fcf, !.debtToEquity = de,
                                 !.profitMargins = pm]
    /\ price = 10
    /\ fair_value = Frac(10)

\* rule1_score derives its fair value from the record
Rule1Inputs ==
    /\ \E roa \in {None, 7, BigRatio},
          roe \in {None, 12},
          pm \in {None, 20},
          cash \in {None, 3, BigMoney},
          debt \in {None, 2},
          ps \in {None, 150},
          fcf \in {None, -BigMoney, 1},
          tp \in {None, 12, 1000},
          eps \in {None, 1},
          fpe \in {None, 2000},
          eg \in {None, 20} :
           info = [NoInfo EXCEPT !.returnOnAssets = roa, !.returnOnEquity = roe,
                                 !.profitMargins = pm, !.totalCash = cash,
                                 !.totalDebt = debt,
                                 !.priceToSalesTrailing12Months = ps,
                                 !.freeCashflow = fcf, !.targetMeanPrice = tp,
                                 !.trailingEps = eps, !.forwardPE = fpe,
                                 !.earningsGrowth = eg]
    /\ price = 10
    /\ fair_value = Frac(10)

InitScore ==
    /\ pc = "call"
    /\ result = NoResult
    /\ NoBatch
    /\ \/ endpoint \in {"analyze", "scan", "utils", "discover"}
          /\ algo = "default" /\ SevenCriteriaInputs
       \/ endpoint = "scan" /\ algo = "momentum" /\ SevenCriteriaInputs
       \/ endpoint = "scan" /\ algo = "value" /\ ValueInputs
       \/ endpoint = "scan" /\ algo = "growth" /\ GrowthInputs
       \/ endpoint = "scan" /\ algo = "quality" /\ QualityInputs
       \/ endpoint = "scan" /\ algo = "dividend" /\ DividendInputs
       \/ endpoint = "recommend" /\ algo = "default" /\ Rule1Inputs

Scored(score, checks) ==
    /\ pc' = "done"
    /\ result' = [kind |-> "score", score |-> score, checks |-> checks]
    /\ UNCHANGED <<endpoint, algo, info, price, fair_value,
                   watchlist, profile, tickers, provider, candidates, idx, opportunities, response,
                   cache, keys, now>>

ScoreAnalyze ==
    /\ pc = "call" /\ endpoint = "analyze"
    /\ LET r == calculate_score_analyze(AnalyzeData(info, price, fair_value))
       IN  Scored(r.score, r.checks)

ScoreScan ==
    /\ pc = "call" /\ endpoint = "scan"
    /\ Scored(get_score_for_algo(info, price, fair_value, algo), <<>>)

ScoreUtils ==
    /\ pc = "call" /\ endpoint = "utils"
    /\ Scored(calculate_investment_score(AppData(info, price, fair_value)), <<>>)

ScoreDiscover ==
    /\ pc = "call" /\ endpoint = "discover"
    /\ Scored(calculate_score_discover(DiscoverData(info, price, fair_value)), <<>>)

ScoreRecommend ==
    /\ pc = "call" /\ endpoint = "recommend"
    /\ Scored(rule1_score(info, price).score, <<>>)

NextScore == ScoreAnalyze \/ ScoreScan \/ ScoreUtils \/ ScoreDiscover \/ ScoreRecommend

SpecScore == InitScore /\ [][NextScore]_vars

ScoreDone == pc = "done" /\ result.kind = "score"

\* C1: for every input record, every scorer variant returns an integer
\* score s with 0 <= s <= 100.
C1_ScoreInRange == ScoreDone => result.score \in 0..100

C1_Witness ==
    /\ ScoreDone /\ endpoint = "analyze"
    /\ info.returnOnAssets = BigRatio /\ info.totalDebt = -BigMoney
    /\ info.totalCash = BigMoney /\ fair_value = Frac(BigMoney)
    /\ result.score = 100

\* the record with 0 in place of every missing metric
ZeroFill(i) ==
    [f \in DOMAIN i |-> IF f = "sector" THEN i[f] ELSE IF i[f] = None THEN 0 ELSE i[f]]

\* the score analyze (proportional) or scan (by profile) returns
ProfileScore(ep, name, i, p, fv) ==
    IF ep = "analyze" THEN calculate_score_analyze(AnalyzeData(i, p, fv)).score
    ELSE get_score_for_algo(i, p, fv, name)

\* a record with every metric missing, priced, its fair value the price
AllMissing == info = NoInfo /\ price > 0 /\ fair_value = Frac(price)

\* C9 as stated: a missing metric earns 0 points for its criterion, hence a
\* record with every scored metric missing scores 0 (proportional scorer and
\* the value, growth, quality and dividend profiles).
C9_MissingAwardsZero ==
    (ScoreDone /\ endpoint \in {"analyze", "scan"}) =>
        /\ (endpoint = "analyze" /\ info.returnOnAssets = None
               => result.checks[1].points = 0)
        /\ (AllMissing => result.score = 0)

\* C9 amended: a missing metric is scored as the value 0 and earns the
\* points its formula gives for 0, which is not always 0 points.  In the
\* proportional scorer a missing ROA or ROE earns 3; a record with every
\* scored metric missing (fair value = price) scores 8 on the proportional
\* scorer, 25 on value, 0 on growth, 0 on quality and 15 on dividend.
C9_MissingScoredAsZero ==
    (ScoreDone /\ endpoint \in {"analyze", "scan"}) =>
        /\ result.score = ProfileScore(endpoint, algo, ZeroFill(info), price, fair_value)
        /\ (endpoint = "analyze" /\ info.returnOnAssets = None
               => result.checks[1].points = 3)
        /\ (endpoint = "analyze" /\ info.returnOnEquity = None
               => result.checks[2].points = 3)
        /\ (AllMissing =>
               result.score = CASE algo = "value" -> 25
                                [] algo = "growth" -> 0
                                [] algo = "quality" -> 0
                                [] algo = "dividend" -> 15
                                [] OTHER -> 8)

C9_Witness ==
    /\ ScoreDone /\ endpoint = "scan" /\ algo = "value"
    /\ AllMissing /\ result.score = 25

----------------------------------------------------------------------------
\* Specification SpecFV: the fair value estimator of analyze, scan and
\* discover applied to a provider record and a price

FVInputs ==
    /\ \E tp \in {None, 0, 120},
          fpe \in {None, 1000, 4000},
          eps \in {None, -2, 5},
          eg \in {None, -10, 20, 150, 5000},
          pe \in {None, 1500, 2500, 3000},
          sec \in {<<>>, <<"Technology">>, <<"Consumer", "Cyclical">>, <<"Healthcare">>,
                   <<"Consumer", "Technology">>} :
           info = [NoInfo EXCEPT !.targetMeanPrice = tp, !.forwardPE = fpe,
                                 !.trailingEps = eps, !.earningsGrowth = eg,
                                 !.trailingPE = pe, !.sector = sec]
    /\ price \in {0, 100}

InitFV ==
    /\ pc = "call"
    /\ endpoint \in {"analyze", "scan", "discover"}
    /\ algo = "default"
    /\ FVInputs
    /\ fair_value = Frac(0)
    /\ result = NoResult
    /\ NoBatch

\* build_stock_result up to the upside: fair_values, fair_value_components,
\* fair value (exact and as round(fair_value, 2)), upside (exact and as
\* round(upside, 1))
FairValueOfAnalyze ==
    /\ pc = "call" /\ endpoint = "analyze"
    /\ LET r == FairValueAnalyze(info, price)
           upside == UpsideOrZero(r.fair_value, price)
       IN  /\ fair_value' = r.fair_value
           /\ result' = [kind |-> "fair_value",
                         fair_values |-> r.fair_values,
                         fair_value_components |-> r.fair_value_components,
                         fair_value |-> Round2(r.fair_value),
                         upside |-> upside,
                         upside_percent |-> Round1(upside)]
    /\ pc' = "done"
    /\ UNCHANGED <<endpoint, algo, info, price,
                   watchlist, profile, tickers, provider, candidates, idx, opportunities, response,
                   cache, keys, now>>

FairValueOfScan ==
    /\ pc = "call" /\ endpoint = "scan"
    /\ LET fv == calculate_fair_value_scan(info, price)
           upside == UpsideOrZero(fv, price)
       IN  /\ fair_value' = fv
           /\ result' = [kind |-> "fair_value", upside |-> upside,
                         upside_percent |-> Round1(upside)]
    /\ pc' = "done"
    /\ UNCHANGED <<endpoint, algo, info, price,
                   watchlist, profile, tickers, provider, candidates, idx, opportunities, response,
                   cache, keys, now>>

FairValueOfDiscover ==
    /\ pc = "call" /\ endpoint = "discover"
    /\ LET fv == calculate_fair_value_discover(info, price)
           upside == UpsideOrZero(fv, price)
       IN  /\ fair_value' = fv
           /\ result' = [kind |-> "fair_value", upside |-> upside,
                         upside_percent |-> Round1(upside)]
    /\ pc' = "done"
    /\ UNCHANGED <<endpoint, algo, info, price,
                   watchlist, profile, tickers, provider, candidates, idx, opportunities, response,
                   cache, keys, now>>

NextFV == FairValueOfAnalyze \/ FairValueOfScan \/ FairValueOfDiscover

SpecFV == InitFV /\ [][NextFV]_vars

FVDone == pc = "done" /\ result.kind = "fair_value"

\* preconditions of the methods, read off the provider record
HasTarget == info.targetMeanPrice # None /\ info.targetMeanPrice > 0

HasEps == info.trailingEps # None /\ info.trailingEps > 0

HasForwardPE == info.forwardPE # None /\ info.forwardPE > 0 /\ HasEps

HasGrowth == info.earningsGrowth # None /\ info.earningsGrowth > 0 /\ HasEps

HasTrailingPE == info.trailingPE # None /\ info.trailingPE > 0 /\ price > 0

\* position of a component label in the fixed order of the methods
MethodRank(label) ==
    CASE label = "Analyst Consensus Target" -> 1
      [] label = "Forward PE Model" -> 2
      [] label = "PEG Model" -> 3
      [] label \in {"Low PE Premium", "High PE Discount"} -> 4
      [] label = "Sector PE Model" -> 5

HasLabel(c, rank) == \E k \in 1..Len(c) : MethodRank(c[k].label) = rank

----------------------------------------------------------------------------
\* Specification SpecSticker: calculate_sticker_price of analyze and
\* recommend applied to a provider record

StickerInputs ==
    /\ \E eps \in {None, 0, -2, 5, 3000},
          eg \in {None, -10, 0, 15, 20, 150},
          fwd \in {None, 4, 6, 3001},
          rg \in {None, -5, 0, 8, 200} :
           info = [NoInfo EXCEPT !.trailingEps = eps, !.earningsGrowth = eg,
                                 !.forwardEps = fwd, !.revenueGrowth = rg]
    /\ price \in {50, 75, 76, 150, 151, 400}

InitSticker ==
    /\ pc = "call"
    /\ endpoint \in {"analyze", "recommend"}
    /\ algo = "default"
    /\ StickerInputs
    /\ fair_value = Frac(0)
    /\ result = NoResult
    /\ NoBatch

StickerAnalyze ==
    /\ pc = "call" /\ endpoint = "analyze"
    /\ Returned("sticker", calculate_sticker_price_analyze(info, price))

StickerRecommend ==
    /\ pc = "call" /\ endpoint = "recommend"
    /\ Returned("sticker", calculate_sticker_price_recommend(info, price))

NextSticker == StickerAnalyze \/ StickerRecommend

SpecSticker == InitSticker /\ [][NextSticker]_vars

StickerDone == pc = "done" /\ result.kind = "sticker"

\* the three growth sources yield a positive rate
AnalystGrowthPositive == info.earningsGrowth # None /\ info.earningsGrowth > 0

ForwardEpsExceeds ==
    /\ info.forwardEps # None /\ info.trailingEps # None
    /\ info.trailingEps > 0 /\ info.forwardEps > info.trailingEps

RevenueGrowthPositive == info.revenueGrowth # None /\ info.revenueGrowth > 0

\* fractions a and b are equal
FracEq(a, b) == a.num * b.den = b.num * a.den

\* C10: calculate_sticker_price returns None exactly when trailing EPS is
\* missing or not positive, or none of the three growth sources yields a
\* positive rate; otherwise the growth rate is taken from the first source,
\* in the order analyst earnings growth, (forward EPS - trailing EPS) /
\* trailing EPS when forward EPS exceeds trailing EPS, revenue growth, that
\* yields a positive rate, and later sources are not consulted.
C10_StickerAvailability ==
    StickerDone =>
        LET st == result.value
            eps == info.trailingEps
            uncapped ==
                IF AnalystGrowthPositive THEN GrowthFraction(info.earningsGrowth)
                ELSE IF ForwardEpsExceeds THEN [num |-> info.forwardEps - eps, den |-> eps]
                ELSE GrowthFraction(info.revenueGrowth)
        IN  /\ (~st.available) <=>
                   \/ eps = None \/ eps <= 0
                   \/ ~(AnalystGrowthPositive \/ ForwardEpsExceeds \/ RevenueGrowthPositive)
            /\ st.available =>
                   /\ st.growth.num > 0
                   /\ FracEq(st.growth,
                             IF uncapped.num * 10 > 3 * uncapped.den
                             THEN [num |-> 3, den |-> 10] ELSE uncapped)
                   /\ (endpoint = "analyze" =>
                          st.growth_source =
                              IF AnalystGrowthPositive THEN "analyst earnings est."
                              ELSE IF ForwardEpsExceeds THEN "forward EPS growth"
                              ELSE "revenue growth")

\* analyst growth and a higher forward EPS both present: the analyst figure
\* (0.20) is used, the forward EPS delta (6 - 5) / 5 is not
C10_Witness ==
    /\ StickerDone /\ endpoint = "analyze"
    /\ info.trailingEps = 5 /\ info.earningsGrowth = 20 /\ info.forwardEps = 6
    /\ info.revenueGrowth = 8
    /\ result.value.available
    /\ result.value.growth_source = "analyst earnings est."
    /\ result.value.growth_rate = 200

----------------------------------------------------------------------------
\* Batch endpoints: scan.py, discover.py, recommend.py and the Flask
\* /api/scan of app.py.  An entry's symbol is the position of its ticker in
\* the request, its upside is round(upside, 1) in tenths of a percent.
\* Descriptive fields of an entry (name, sector, industry, ...) are left out.

\* how the provider can answer one ticker: the info call and the
\* price-history call each raise, return nothing, or answer
Answers == {"outage", "info_error", "blank", "no_price", "stale", "fair", "fair2", "weak"}

FairInfo ==
    [NoInfo EXCEPT !.returnOnAssets = 8, !.returnOnEquity = 12, !.totalCash = 20,
                   !.totalDebt = 20, !.profitMargins = 8,
                   !.priceToSalesTrailing12Months = 300, !.targetMeanPrice = 111,
                   !.sector = <<"Technology">>]

WeakInfo ==
    [NoInfo EXCEPT !.returnOnAssets = 2, !.totalCash = 5, !.totalDebt = 40,
                   !.priceToSalesTrailing12Months = 600, !.trailingPE = 3000]

\* quality score 100 under rule1_score
StrongInfo ==
    [NoInfo EXCEPT !.returnOnAssets = 12, !.returnOnEquity = 25, !.totalCash = 50,
                   !.totalDebt = 20, !.profitMargins = 20, !.freeCashflow = 5,
                   !.priceToSalesTrailing12Months = 150, !.targetMeanPrice = 200]

\* quality score 57, sector as the provider names it
SteadyInfo ==
    [FairInfo EXCEPT !.profitMargins = 3, !.sector = <<"Communication", "Services">>]

\* quality score 25: exactly at the gate of the recommendations
MarginalInfo ==
    [NoInfo EXCEPT !.totalCash = 20, !.totalDebt = 20, !.targetMeanPrice = 111]

\* quality score 22: just below the gate
ShortInfo ==
    [NoInfo EXCEPT !.returnOnAssets = 8, !.totalCash = 20, !.totalDebt = 20]

Quote(answer) ==
    LET base == [info_call |-> "ok", hist_call |-> "ok", close |-> 100,
                 currentPrice |-> None, regularMarketPrice |-> None, dcf |-> None,
                 pool |-> <<"Healthcare">>, info |-> NoInfo]
    IN  CASE answer = "outage" -> [base EXCEPT !.info_call = "raise", !.hist_call = "raise"]
          [] answer = "info_error" -> [base EXCEPT !.info_call = "raise", !.close = 40]
          [] answer = "blank" -> [base EXCEPT !.info_call = "empty", !.close = 30]
          [] answer = "no_price" -> [base EXCEPT !.hist_call = "empty", !.info = FairInfo]
          [] answer = "stale" -> [base EXCEPT !.info = WeakInfo]
          [] answer = "fair" -> [base EXCEPT !.currentPrice = 100, !.info = FairInfo]
          [] answer = "fair2" -> [base EXCEPT !.currentPrice = 100, !.dcf = 120,
                                               !.info = [FairInfo EXCEPT !.targetMeanPrice = 112]]
          [] answer = "weak" -> [base EXCEPT !.currentPrice = 0, !.regularMarketPrice = 80,
                                              !.info = WeakInfo, !.pool = <<"Energy">>]
          [] answer = "strong" -> [base EXCEPT !.currentPrice = 150, !.info = StrongInfo]
          [] answer = "marginal" -> [base EXCEPT !.currentPrice = 100, !.info = MarginalInfo]
          [] answer = "short" -> [base EXCEPT !.currentPrice = 100, !.info = ShortInfo]
          [] answer = "steady" -> [base EXCEPT !.currentPrice = 80, !.info = SteadyInfo]

\* safe_get(info, 'currentPrice') or safe_get(info, 'regularMarketPrice', 0)
CurrentPrice(t) ==
    IF safe_get(t.currentPrice, 0) # 0 THEN t.currentPrice
    ELSE safe_get(t.regularMarketPrice, 0)

\* scan.py: the entry appended when only the price history is available
ScanDefaultEntry(t, k) == [symbol |-> k, price |-> t.close, score |-> 50, upside |-> 0]

ScanOnError_mut(t, k) == <<>>

\* scan.py: the except branch asks for the price history once more
ScanOnError(t, k) == IF t.hist_call = "ok" THEN <<ScanDefaultEntry(t, k)>> ELSE <<>>

\* scan.py: one iteration of the loop; the entries it appends (none or one)
ScanIteration(t, k, name) ==
    IF t.info_call = "raise" THEN ScanOnError(t, k)
    ELSE IF t.info_call = "empty"
    THEN IF t.hist_call = "raise" THEN ScanOnError(t, k)
         ELSE IF t.hist_call = "ok" THEN <<ScanDefaultEntry(t, k)>>
         ELSE <<>>
    ELSE IF CurrentPrice(t) = 0 /\ t.hist_call = "raise" THEN ScanOnError(t, k)
    ELSE LET p == IF CurrentPrice(t) = 0
                  THEN (IF t.hist_call = "ok" THEN t.close ELSE 0)
                  ELSE CurrentPrice(t)
             fv == calculate_fair_value_scan(t.info, p)
         IN  IF p = 0 THEN <<>>
             ELSE <<[symbol |-> k, price |-> p,
                     score |-> get_score_for_algo(t.info, p, fv, name),
                     upside |-> Round1(UpsideOrZero(fv, p))]>>

\* discover.py: one iteration of the loop
DiscoverIteration(t, k) ==
    IF t.info_call # "ok" THEN <<>>
    ELSE LET p == CurrentPrice(t)
             fv == calculate_fair_value_discover(t.info, p)
         IN  IF p = 0 THEN <<>>
             ELSE <<[symbol |-> k, price |-> p,
                     score |-> calculate_score_discover(DiscoverData(t.info, p, fv)),
                     upside |-> Round1(UpsideOrZero(fv, p))]>>

\* app.calculate_fair_value(data): P/E method eps * 15, else price * 1.3.
\* The Graham method needs book_value_per_share, which analyze_stock never
\* supplies; the DCF method needs shares_outstanding, which analyze_stock
\* derives from the profile's market cap, and the quotes above report none.
calculate_fair_value_app(eps, p) ==
    IF eps > 0 THEN Frac(eps * 15) ELSE [num |-> p * 13, den |-> 10]

\* app.analyze_stock(symbol) as scan_opportunities reads it: a provider
\* request that fails returns None inside tradier_request / fmp_request, so
\* the quote keeps price 0 and the fundamentals stay empty
AppAnalysis(t) ==
    LET answered == t.info_call = "ok"
        i == IF answered THEN t.info ELSE NoInfo
        p == IF answered THEN safe_get(t.currentPrice, 0) ELSE 0
        dcf == IF answered THEN OrZero(t.dcf) ELSE 0
        fv == IF dcf # 0 THEN Frac(dcf)
              ELSE calculate_fair_value_app(OrZero(i.trailingEps), p)
    IN  [price |-> p,
         investment_score |-> calculate_investment_score(AppData(i, p, fv)),
         upside_percent |-> Round1(UpsideOrZero(fv, p))]

\* app.scan_opportunities: one iteration; the analysis never carries 'error'
AppScanIteration(t, k) ==
    LET analysis == AppAnalysis(t)
    IN  <<[symbol |-> k, price |-> analysis.price,
           score |-> analysis.investment_score,
           upside |-> analysis.upside_percent]>>

\* recommend.py: a saved stock of the posted watchlist
Watchlists ==
    { <<[symbol |-> "AAPL", sector |-> <<"Technology">>, score |-> 80,
         price_at_save |-> 150, price |-> 0]>>,
      <<[symbol |-> "MSFT", sector |-> <<"Technology">>, score |-> 70,
         price_at_save |-> 0, price |-> 90],
        [symbol |-> "UNH", sector |-> <<"Healthcare">>, score |-> 40,
         price_at_save |-> 300, price |-> 310],
        [symbol |-> "", sector |-> <<>>, score |-> 0, price_at_save |-> 0, price |-> 0]>> }

RECURSIVE SeqMin(_)
SeqMin(s) == IF Len(s) = 1 THEN s[1] ELSE Min(s[1], SeqMin(Tail(s)))

RECURSIVE SeqMax(_)
SeqMax(s) == IF Len(s) = 1 THEN s[1] ELSE Max(s[1], SeqMax(Tail(s)))

\* recommend.build_profile(watchlist); top_sectors are the three most saved
\* sectors, sectors saved equally often in the order of their first item
build_profile(items) ==
    IF items = <<>> THEN NoProfile ELSE
    LET Saved(k) == IF items[k].price_at_save # 0 THEN items[k].price_at_save
                    ELSE items[k].price
        named == {k \in DOMAIN items : items[k].sector # <<>>}
        sectors == [sec \in {items[k].sector : k \in named} |->
                        Cardinality({k \in named : items[k].sector = sec})]
        scores == SelectSeq([k \in DOMAIN items |-> items[k].score],
                            LAMBDA sc : sc # 0)
        prices == SelectSeq([k \in DOMAIN items |-> Saved(k)], LAMBDA x : x > 0)
        total_sector_saves == IF named # {} THEN Cardinality(named) ELSE 1
        First(sec) == CHOOSE k \in named :
                          /\ items[k].sector = sec
                          /\ \A j \in named : items[j].sector = sec => k <= j
        Before(a, b) == \/ sectors[a] > sectors[b]
                        \/ sectors[a] = sectors[b] /\ First(a) < First(b)
        Place(sec) == 1 + Cardinality({a \in DOMAIN sectors : Before(a, sec)})
        top_sectors == [k \in 1..Cardinality(DOMAIN sectors) |->
                            CHOOSE sec \in DOMAIN sectors : Place(sec) = k]
    IN  [sectors |-> sectors,
         top_sectors |-> SubSeq(top_sectors, 1, Min(3, Len(top_sectors))),
         saved_symbols |-> {items[k].symbol : k \in DOMAIN items},
         sector_weights |-> [sec \in DOMAIN sectors |->
                                [num |-> sectors[sec], den |-> total_sector_saves]],
         avg_score |-> IF scores # <<>> THEN [num |-> SumSeq(scores), den |-> Len(scores)]
                       ELSE Frac(50),
         min_score |-> IF scores # <<>> THEN SeqMin(scores) ELSE 0,
         max_score |-> IF scores # <<>> THEN SeqMax(scores) ELSE 100,
         avg_price |-> IF prices # <<>> THEN [num |-> SumSeq(prices), den |-> Len(prices)]
                       ELSE Frac(200),
         min_price |-> IF prices # <<>> THEN SeqMin(prices) ELSE 0,
         max_price |-> IF prices # <<>> THEN SeqMax(prices) ELSE 1000,
         count |-> Len(items)]

\* a in b for two sector labels (word by word)
IsInfix(a, b) ==
    \E k \in 0..(Len(b) - Len(a)) : SubSeq(b, k + 1, k + Len(a)) = a

\* recommend.py: the affinity of one candidate, a fraction
Affinity(prof, quality_score, p, stock_sector) ==
    LET matching == {us \in DOMAIN prof.sectors :
                        IsInfix(us, stock_sector) \/ IsInfix(stock_sector, us)}
        den == IF DOMAIN prof.sectors # {}
               THEN prof.sector_weights[CHOOSE us \in DOMAIN prof.sectors : TRUE].den
               ELSE 1
        best_match == IF matching = {} THEN 0
                      ELSE CHOOSE c \in {prof.sectors[us] : us \in matching} :
                               \A us \in matching : prof.sectors[us] <= c
        score_range == Max(prof.max_score - prof.min_score, 20)
        score_dist2 == Abs(2 * quality_score - (prof.min_score + prof.max_score))
        score_pts == IF score_dist2 <= score_range THEN 10
                     ELSE IF score_dist2 <= 2 * score_range THEN 5 ELSE 0
        price_range == Max(prof.max_price - prof.min_price, 50)
        n == prof.avg_price.den
        price_dist == Abs(p * n - prof.avg_price.num)
        price_pts == IF 2 * price_dist <= price_range * n THEN 10
                     ELSE IF price_dist <= price_range * n THEN 5
                     ELSE IF price_dist <= 2 * price_range * n THEN 2 ELSE 0
        bonus == IF stock_sector \notin DOMAIN prof.sectors
                    /\ Cardinality(DOMAIN prof.sectors) < 3 THEN 5 ELSE 0
    IN  [num |-> best_match * 15 + (score_pts + price_pts + bonus) * den, den |-> den]

\* int(quality_score * 0.6 + min(affinity, 40) * 0.4 / 40 * 100 * 0.4)
FinalScore(quality_score, affinity) ==
    LET capped == IF affinity.num > 40 * affinity.den THEN Frac(40) ELSE affinity
    IN  Trunc(quality_score * 6 * 4 * capped.den + capped.num * 16,
              40 * capped.den)

\* recommend.py: one iteration of the loop over the candidates
RecommendIteration(t, k, prof) ==
    IF t.info_call # "ok" THEN <<>>
    ELSE LET p == CurrentPrice(t)
             r1 == rule1_score(t.info, p)
             stock_sector == IF t.info.sector # <<>> THEN t.info.sector ELSE t.pool
         IN  IF p = 0 \/ r1.score < 25 THEN <<>>
             ELSE <<[symbol |-> k, sector |-> stock_sector, price |-> p,
                     score |-> r1.score, upside |-> r1.upside,
                     final |-> FinalScore(r1.score,
                                          Affinity(prof, r1.score, p, stock_sector))]>>

\* list.sort(key=lambda x: x['score'], reverse=True): the sort is stable,
\* entries of equal score keep the order in which they were appended
ScoreBefore_mut(a, e) ==
    a.score > e.score \/ (a.score = e.score /\ a.upside >= e.upside)

\* an entry a already in the list stays before a later entry e
ScoreBefore(a, e) == a.score >= e.score

RECURSIVE InsertByScore(_, _)
InsertByScore(sorted, e) ==
    IF sorted = <<>> THEN <<e>>
    ELSE IF ScoreBefore(Head(sorted), e)
    THEN <<Head(sorted)>> \o InsertByScore(Tail(sorted), e)
    ELSE <<e>> \o sorted

RECURSIVE SortByScore(_)
SortByScore(entries) ==
    IF entries = <<>> THEN <<>>
    ELSE InsertByScore(SortByScore(SubSeq(entries, 1, Len(entries) - 1)),
                       entries[Len(entries)])

RankLe_mut(a, b) == a.final >= b.final

\* recommend's key (-_final, -score, -upside): a does not sort after b
RankLe(a, b) ==
    \/ a.final > b.final
    \/ a.final = b.final /\ a.score > b.score
    \/ a.final = b.final /\ a.score = b.score /\ a.upside >= b.upside

RECURSIVE InsertByRank(_, _)
InsertByRank(sorted, e) ==
    IF sorted = <<>> THEN <<e>>
    ELSE IF RankLe(Head(sorted), e)
    THEN <<Head(sorted)>> \o InsertByRank(Tail(sorted), e)
    ELSE <<e>> \o sorted

RECURSIVE SortByRank(_)
SortByRank(entries) ==
    IF entries = <<>> THEN <<>>
    ELSE InsertByRank(SortByRank(SubSeq(entries, 1, Len(entries) - 1)),
                      entries[Len(entries)])

\* entries[:n]
Take(entries, n) == SubSeq(entries, 1, Min(n, Len(entries)))

\* r.pop('_final', None)
PopFinal(e) == [f \in DOMAIN e \ {"final"} |-> e[f]]

----------------------------------------------------------------------------
\* Specification SpecBatch: one batch request served by scan.py,
\* discover.py, recommend.py or the Flask /api/scan

\* most symbols in a request of the model
MaxTickers == 5

\* discover.py: the number of sectors sampled, one pick each
DiscoverPicks == 5

InitBatch ==
    /\ pc = "loop"
    /\ \/ endpoint = "scan" /\ algo \in Algos \cup {"default"} /\ tickers \in 1..MaxTickers
          /\ profile = NoProfile
       \/ endpoint = "discover" /\ algo = "default" /\ tickers = DiscoverPicks
          /\ profile = NoProfile
       \/ endpoint = "recommend" /\ algo = "default" /\ tickers \in 1..MaxTickers
          /\ profile \in {build_profile(w) : w \in Watchlists}
       \/ endpoint = "app_scan" /\ algo = "default" /\ tickers \in 1..MaxTickers
          /\ profile = NoProfile
    /\ info = NoInfo
    /\ price = 0
    /\ fair_value = Frac(0)
    /\ result = NoResult
    /\ watchlist = <<>> /\ provider = <<>> /\ candidates = <<>>
    /\ idx = 0 /\ opportunities = <<>> /\ response = <<>>
    /\ NoApp

\* the provider answered the next ticker and the loop body ran
Processed(answer, entries) ==
    /\ provider' = Append(provider, answer)
    /\ idx' = idx + 1
    /\ opportunities' = opportunities \o entries
    /\ UNCHANGED <<pc, endpoint, algo, info, price, fair_value, result,
                   watchlist, profile, tickers, candidates, response,
                   cache, keys, now>>

\* the loop is over: the list is written to the caller
Responded(list) ==
    /\ pc' = "done"
    /\ response' = list
    /\ result' = [kind |-> "batch", scanned |-> tickers]
    /\ UNCHANGED <<endpoint, algo, info, price, fair_value,
                   watchlist, profile, tickers, provider, candidates, idx, opportunities,
                   cache, keys, now>>

ScanTicker ==
    /\ pc = "loop" /\ endpoint = "scan" /\ idx < tickers
    /\ \E answer \in Answers :
           Processed(answer, ScanIteration(Quote(answer), idx + 1, algo))

ScanRespond ==
    /\ pc = "loop" /\ endpoint = "scan" /\ idx = tickers
    /\ Responded(SortByScore(opportunities))

DiscoverTicker ==
    /\ pc = "loop" /\ endpoint = "discover" /\ idx < tickers
    /\ \E answer \in Answers :
           Processed(answer, DiscoverIteration(Quote(answer), idx + 1))

DiscoverRespond ==
    /\ pc = "loop" /\ endpoint = "discover" /\ idx = tickers
    /\ Responded(Take(SortByScore(opportunities), 3))

RecommendTicker ==
    /\ pc = "loop" /\ endpoint = "recommend" /\ idx < tickers
    /\ \E answer \in Answers :
           Processed(answer, RecommendIteration(Quote(answer), idx + 1, profile))

RecommendRespond ==
    /\ pc = "loop" /\ endpoint = "recommend" /\ idx = tickers
    /\ LET top_recs == Take(SortByRank(opportunities), 6)
       IN  Responded([k \in 1..Len(top_recs) |-> PopFinal(top_recs[k])])

AppScanTicker ==
    /\ pc = "loop" /\ endpoint = "app_scan" /\ idx < tickers
    /\ \E answer \in Answers :
           Processed(answer, AppScanIteration(Quote(answer), idx + 1))

AppScanRespond ==
    /\ pc = "loop" /\ endpoint = "app_scan" /\ idx = tickers
    /\ Responded(SortByScore(opportunities))

NextBatch ==
    \/ ScanTicker \/ ScanRespond
    \/ DiscoverTicker \/ DiscoverRespond
    \/ RecommendTicker \/ RecommendRespond
    \/ AppScanTicker \/ AppScanRespond

SpecBatch == InitBatch /\ [][NextBatch]_vars

----------------------------------------------------------------------------
\* Specification SpecRecommend: one POST to recommend.py, from the posted
\* watchlist to the recommendations written to the caller.  An entry's
\* symbol is the candidate's ticker.

\* an excerpt of STOCK_POOLS, in the order of the source; GOOGL and META
\* are listed under Technology and under Communication
STOCK_POOLS ==
    << [sector |-> <<"Technology">>, tickers |-> <<"AAPL", "MSFT", "GOOGL", "META">>],
       [sector |-> <<"Healthcare">>, tickers |-> <<"UNH", "JNJ">>],
       [sector |-> <<"Communication">>, tickers |-> <<"DIS", "GOOGL", "META">>] >>

\* the (ticker, sector) pairs of all pools
ALL_CANDIDATES ==
    LET RECURSIVE Pairs(_)
        Pairs(pools) ==
            IF pools = <<>> THEN <<>>
            ELSE [k \in DOMAIN Head(pools).tickers |->
                     [ticker |-> Head(pools).tickers[k], sector |-> Head(pools).sector]]
                 \o Pairs(Tail(pools))
    IN  Pairs(STOCK_POOLS)

Symbols == {ALL_CANDIDATES[k].ticker : k \in DOMAIN ALL_CANDIDATES}

\* random.shuffle(list): every order of the list
Shuffled(list) ==
    {[k \in DOMAIN list |-> list[f[k]]] : f \in Permutations(DOMAIN list)}

\* the sector of a pool matches one of the user's top sectors
SectorMatched(prof, sector) ==
    \E k \in DOMAIN prof.top_sectors :
        IsInfix(prof.top_sectors[k], sector) \/ IsInfix(sector, prof.top_sectors[k])

pick_candidates_mut(prof) ==
    LET sector_matches == SelectSeq(ALL_CANDIDATES, LAMBDA c : SectorMatched(prof, c.sector))
        others == SelectSeq(ALL_CANDIDATES, LAMBDA c : ~SectorMatched(prof, c.sector))
    IN  {Take(Take(m, 12) \o Take(o, 8), 20) : m \in Shuffled(sector_matches),
                                                o \in Shuffled(others)}

\* pick_candidates(profile): the lists it can return
pick_candidates(prof) ==
    LET unsaved == SelectSeq(ALL_CANDIDATES, LAMBDA c : c.ticker \notin prof.saved_symbols)
        sector_matches == SelectSeq(unsaved, LAMBDA c : SectorMatched(prof, c.sector))
        others == SelectSeq(unsaved, LAMBDA c : ~SectorMatched(prof, c.sector))
    IN  {Take(Take(m, 12) \o Take(o, 8), 20) : m \in Shuffled(sector_matches),
                                                o \in Shuffled(others)}

\* what the provider holds for each symbol at the time of the request
Markets ==
    { [sym \in Symbols |-> "fair"],
      ("AAPL" :> "strong" @@ "MSFT" :> "strong" @@ "GOOGL" :> "fair" @@ "META" :> "fair2"
         @@ "UNH" :> "marginal" @@ "JNJ" :> "fair" @@ "DIS" :> "steady"),
      ("AAPL" :> "fair" @@ "MSFT" :> "short" @@ "GOOGL" :> "outage" @@ "META" :> "weak"
         @@ "UNH" :> "strong" @@ "JNJ" :> "marginal" @@ "DIS" :> "blank"),
      ("AAPL" :> "marginal" @@ "MSFT" :> "fair2" @@ "GOOGL" :> "strong" @@ "META" :> "marginal"
         @@ "UNH" :> "fair" @@ "JNJ" :> "no_price" @@ "DIS" :> "fair2") }

InitRecommend ==
    /\ pc = "request"
    /\ endpoint = "recommend" /\ algo = "default"
    /\ watchlist \in Watchlists \cup {<<>>}
    /\ profile = NoProfile
    /\ provider \in Markets
    /\ tickers = 0 /\ candidates = <<>>
    /\ info = NoInfo
    /\ price = 0
    /\ fair_value = Frac(0)
    /\ result = NoResult
    /\ idx = 0 /\ opportunities = <<>> /\ response = <<>>
    /\ NoApp

\* do_POST: an empty or absent watchlist is answered at once
NoWatchlist ==
    /\ pc = "request" /\ watchlist = <<>>
    /\ Responded(<<>>)

\* _generate_recommendations: the candidates are picked
PickCandidates ==
    /\ pc = "request" /\ watchlist # <<>>
    /\ profile' = build_profile(watchlist)
    /\ \E picked \in pick_candidates(profile') :
          /\ candidates' = picked
          /\ tickers' = Len(picked)
    /\ pc' = "loop"
    /\ UNCHANGED <<endpoint, algo, info, price, fair_value, result,
                   watchlist, provider, idx, opportunities, response,
                   cache, keys, now>>

\* one iteration of the loop over the candidates
AnalyzeCandidate ==
    /\ pc = "loop" /\ endpoint = "recommend" /\ idx < Len(candidates)
    /\ LET c == candidates[idx + 1]
           t == [Quote(provider[c.ticker]) EXCEPT !.pool = c.sector]
       IN  opportunities' = opportunities \o RecommendIteration(t, c.ticker, profile)
    /\ idx' = idx + 1
    /\ UNCHANGED <<pc, endpoint, algo, info, price, fair_value, result,
                   watchlist, profile, tickers, provider, candidates, response,
                   cache, keys, now>>

NextRecommend == NoWatchlist \/ PickCandidates \/ AnalyzeCandidate \/ RecommendRespond

SpecRecommend == InitRecommend /\ [][NextRecommend]_vars

BatchDone == pc = "done" /\ result.kind = "batch"

\* the entries of a list, and the entry of ticker k if there is one
EntriesOf(list) == {list[k] : k \in DOMAIN list}

HasEntry(list, k) == \E e \in EntriesOf(list) : e.symbol = k

\* ticker k of the batch, as the provider answered it
Ticker(k) == Quote(provider[k])

\* the info call of ticker k raised
InfoRaised(k) == Ticker(k).info_call = "raise"

\* ticker k answered with a record and a current price
Priced(k) == Ticker(k).info_call = "ok" /\ CurrentPrice(Ticker(k)) > 0

C7_NoZeroPriceEntry ==
    (BatchDone /\ endpoint \in {"scan", "discover", "app_scan"}) =>
        \A e \in EntriesOf(response) : e.price # 0

\* the positions of adjacent entries of equal score
TiedPairs(list) == {k \in 1..(Len(list) - 1) : list[k].score = list[k + 1].score}

\* C8 as stated: entries of equal score are ordered by a secondary key of
\* the entries (their upside, in either direction) and not by the order in
\* which the tickers were processed.
C8_SecondaryTieBreak ==
    (BatchDone /\ endpoint \in {"scan", "discover", "app_scan"}) =>
        \/ \A k \in TiedPairs(response) : response[k].upside >= response[k + 1].upside
        \/ \A k \in TiedPairs(response) : response[k].upside <= response[k + 1].upside

\* C8 amended: nothing is written before every ticker is processed; the
\* list is the collected entries (the first three of them for discover)
\* in non-increasing order of score, and entries of equal score keep the
\* order in which their tickers were processed: the sort has no secondary
\* key.
C8_StableScoreOrder ==
    /\ pc = "loop" => response = <<>>
    /\ (BatchDone /\ endpoint \in {"scan", "discover", "app_scan"}) =>
          /\ idx = tickers
          /\ \A k \in 1..(Len(response) - 1) : response[k].score >= response[k + 1].score
          /\ \A k \in TiedPairs(response) : response[k].symbol < response[k + 1].symbol
          /\ EntriesOf(response) \subseteq EntriesOf(opportunities)
          /\ Len(response) = IF endpoint = "discover" THEN Min(3, Len(opportunities))
                             ELSE Len(opportunities)
          /\ \A e \in EntriesOf(opportunities) \ EntriesOf(response) :
                 \A r \in EntriesOf(response) :
                     r.score > e.score \/ (r.score = e.score /\ r.symbol < e.symbol)

\* three tickers of equal score processed in the order upside 11.0, 12.0,
\* 11.0 are listed in that order
C8_Witness ==
    /\ BatchDone /\ endpoint = "scan" /\ algo = "default"
    /\ provider = <<"fair", "fair2", "fair">>
    /\ Len(response) = 3
    /\ response[1].score = response[3].score
    /\ <<response[1].upside, response[2].upside, response[3].upside>> = <<110, 120, 110>>

\* the sticker record returned to the caller
Sticker == result.value

StickerReturned == StickerDone /\ Sticker.available

\* a * b = c * d for long numbers
BigCross(a, b, c, d) == BigMul(a, b) = BigMul(c, d)

\* the field rec is the long fraction f rounded to a multiple of 1/scale:
\* |rec / scale - f| <= 1 / (2 * scale)
RoundingOf(rec, f, scale) ==
    LET scaled == BigMul(f.num, BigFromInt(2 * scale))
    IN  /\ rec >= 0
        /\ BigLeq(scaled, BigMul(f.den, BigFromInt(2 * rec + 1)))
        /\ rec > 0 => BigLeq(BigMul(f.den, BigFromInt(2 * rec - 1)), scaled)

\* a fraction of integers as a long fraction (num >= 0)
AsLong(f) == [num |-> BigFromInt(f.num), den |-> BigFromInt(f.den)]

\* C11 as stated, read on the fields of the returned record (growth_rate
\* and future_pe in tenths, prices in hundredths): 0 < growth_rate <= 30,
\* future_pe = min(2 x growth_rate, 50), future_price = future_eps x
\* future_pe and mos_price = sticker_price / 2.
C11_RecordRelations ==
    (StickerReturned /\ endpoint = "analyze") =>
        /\ 0 < Sticker.growth_rate /\ Sticker.growth_rate <= 300
        /\ Sticker.future_pe = Min(2 * Sticker.growth_rate, 500)
        /\ Sticker.future_price * 10 = Sticker.future_eps * Sticker.future_pe
        /\ 2 * Sticker.mos_price = Sticker.sticker_price

\* C11 amended: the relations hold between the figures before rounding:
\* 0 < g <= 0.30, future_pe = min(200 g, 50) <= 50, future_eps = eps *
\* (1 + g) ** 10, future_price = future_eps * future_pe, sticker_price =
\* future_price / 1.15 ** 10 and mos_price = sticker_price / 2.  Each field
\* of the returned record is one of these figures rounded on its own (one
\* decimal for growth_rate and future_pe, two for the prices), so the
\* record satisfies them only up to rounding and its growth_rate can be
\* 0.0.  For eps = 5, earnings growth 0.20 and price 50 the growth rate is
\* 20.0 and future_pe is 40.0.
C11_StickerFigures ==
    StickerReturned =>
        LET f == Sticker.figures
            g == Sticker.growth
            eps == info.trailingEps
            pct == [num |-> g.num * 100, den |-> g.den]
        IN  /\ f.growth_rate = g
            /\ g.num > 0 /\ g.den > 0 /\ 10 * g.num <= 3 * g.den
            /\ FracEq(f.future_pe, IF 4 * g.num <= g.den
                                   THEN [num |-> 200 * g.num, den |-> g.den]
                                   ELSE Frac(50))
            /\ f.future_pe.num <= 50 * f.future_pe.den
            /\ BigCross(f.future_eps.num, BigPow(BigFromInt(g.den), 10),
                        BigMul(BigFromInt(eps), BigPow(BigFromInt(g.num + g.den), 10)),
                        f.future_eps.den)
            /\ BigCross(f.future_price.num,
                        BigMul(f.future_eps.den, BigFromInt(f.future_pe.den)),
                        BigMul(f.future_eps.num, BigFromInt(f.future_pe.num)),
                        f.future_price.den)
            /\ BigCross(f.sticker_price.num,
                        BigMul(f.future_price.den, BigPow(<<23>>, 10)),
                        BigMul(f.future_price.num, BigPow(<<20>>, 10)),
                        f.sticker_price.den)
            /\ BigCross(BigMul(f.mos_price.num, <<2>>), f.sticker_price.den,
                        f.sticker_price.num, f.mos_price.den)
            /\ RoundingOf(Sticker.growth_rate, AsLong(pct), 10)
            /\ Sticker.growth_rate <= 300
            /\ RoundingOf(Sticker.mos_price, f.mos_price, 100)
            /\ endpoint = "analyze" =>
                  /\ RoundingOf(Sticker.future_eps, f.future_eps, 100)
                  /\ RoundingOf(Sticker.future_pe, AsLong(f.future_pe), 10)
                  /\ RoundingOf(Sticker.future_price, f.future_price, 100)
                  /\ RoundingOf(Sticker.sticker_price, f.sticker_price, 100)
            /\ endpoint = "recommend" =>
                  RoundingOf(Sticker.sticker, f.sticker_price, 100)
            /\ (eps = 5 /\ info.earningsGrowth = 20 /\ price = 50) =>
                  /\ Sticker.growth_rate = 200
                  /\ FracEq(f.future_pe, Frac(40))
                  /\ endpoint = "analyze" => Sticker.future_pe = 400

\* eps = 5, earnings growth 0.20, price 50: growth 20.0, future P/E 40.0,
\* future EPS 30.96, future price 1238.35, sticker 306.10, MOS 153.05
C11_Witness ==
    /\ StickerReturned /\ endpoint = "analyze"
    /\ info.trailingEps = 5 /\ info.earningsGrowth = 20 /\ price = 50
    /\ Sticker.growth_rate = 200 /\ Sticker.future_pe = 400
    /\ Sticker.future_eps = 3096 /\ Sticker.future_price = 123835
    /\ Sticker.sticker_price = 30610 /\ Sticker.mos_price = 15305

\* k * price <= eps * (1 + g) ** 10 * min(200 g, 50) / 1.15 ** 10, written
\* out from the inputs: k = 1 compares the price with the sticker price,
\* k = 2 with the margin-of-safety price
PriceWithin(k) ==
    LET g == Sticker.growth
        pe == IF 4 * g.num <= g.den THEN [num |-> 200 * g.num, den |-> g.den] ELSE Frac(50)
        num == BigMul(BigMul(BigFromInt(info.trailingEps * pe.num),
                             BigPow(BigFromInt(g.num + g.den), 10)),
                      BigPow(<<20>>, 10))
        den == BigMul(BigMul(BigFromInt(pe.den), BigPow(BigFromInt(g.den), 10)),
                      BigPow(<<23>>, 10))
    IN  BigLeq(BigMul(BigFromInt(k * price), den), num)

\* C12: whenever a sticker price is available the verdict is exactly one of
\* ON SALE, FAIR VALUE, OVERPRICED: ON SALE iff price <= mos_price, FAIR
\* VALUE iff mos_price < price <= sticker_price, OVERPRICED iff price >
\* sticker_price (on the figures before rounding).
C12_VerdictByPrice ==
    (StickerReturned /\ endpoint = "analyze") =>
        /\ Sticker.verdict \in {"ON SALE", "FAIR VALUE", "OVERPRICED"}
        /\ Sticker.verdict = "ON SALE" <=> PriceWithin(2)
        /\ Sticker.verdict = "FAIR VALUE" <=> (~PriceWithin(2) /\ PriceWithin(1))
        /\ Sticker.verdict = "OVERPRICED" <=> ~PriceWithin(1)

\* eps 5 growing 15%: sticker price exactly 150 and MOS price exactly 75;
\* a price of 75 is still on sale
C12_Witness ==
    /\ StickerReturned /\ endpoint = "analyze"
    /\ info.trailingEps = 5 /\ info.earningsGrowth = 15 /\ price = 75
    /\ Sticker.mos_price = 7500 /\ Sticker.sticker_price = 15000
    /\ Sticker.verdict = "ON SALE"

----------------------------------------------------------------------------
\* Checklist of the analyze endpoint

Checks == result.checks

RECURSIVE MaxSum(_)
MaxSum(checks) == IF checks = <<>> THEN 0 ELSE Head(checks).max + MaxSum(Tail(checks))

ChecklistReturned == ScoreDone /\ endpoint = "analyze"

\* the two entries calculate_score appends only when their data is usable
FairValueChecked == price > 0 /\ (fair_value.num = 0 \/ fair_value.num > 0)

PriceToSalesChecked == safe_get(info.priceToSalesTrailing12Months, 0) > 0

\* C13 as stated: every checklist entry has 0 <= points <= max and the max
\* values of the entries sum to 100, for every input.
C13_MaximaSumTo100 ==
    ChecklistReturned =>
        /\ \A k \in 1..Len(Checks) : Checks[k].points \in 0..Checks[k].max
        /\ MaxSum(Checks) = 100

\* C13: every checklist entry has 0 <= points <= max; the entries for ROA,
\* ROE, cash/debt, profit margin and FCF are always present (maxima 15, 15,
\* 15, 10, 15), the fair-value entry (20) only for price > 0 and fair value
\* > 0, the P/S entry (10) only for a P/S ratio > 0; so the maxima sum to
\* 100 exactly when both are present and to 70, 80 or 90 otherwise.
C13_ChecklistMaxima ==
    ChecklistReturned =>
        /\ \A k \in 1..Len(Checks) : Checks[k].points \in 0..Checks[k].max
        /\ <<"roa", "roe", "cash_debt", "profit_margin", "fcf">>
              = SelectSeq([k \in 1..Len(Checks) |-> Checks[k].name],
                          LAMBDA n : n \notin {"fair_value", "ps_ratio"})
        /\ FairValueChecked <=> \E k \in 1..Len(Checks) : Checks[k].name = "fair_value"
        /\ PriceToSalesChecked <=> \E k \in 1..Len(Checks) : Checks[k].name = "ps_ratio"
        /\ MaxSum(Checks) = 70 + (IF FairValueChecked THEN 20 ELSE 0)
                               + (IF PriceToSalesChecked THEN 10 ELSE 0)
        /\ (FairValueChecked /\ PriceToSalesChecked) =>
              /\ [k \in 1..7 |-> Checks[k].max] = <<15, 15, 15, 20, 10, 10, 15>>
              /\ MaxSum(Checks) = 100

\* all seven entries present, one of them with partial credit
C13_Witness ==
    /\ ChecklistReturned
    /\ Len(Checks) = 7 /\ MaxSum(Checks) = 100
    /\ \E k \in 1..7 : Checks[k].points > 0 /\ Checks[k].points < Checks[k].max

----------------------------------------------------------------------------
\* Scorer profiles of the scan endpoint

\* the maxima of the criteria of each profile, in source order
ProfileMaxima(name) ==
    CASE name = "value" -> <<25, 20, 20, 15, 20>>
      [] name = "growth" -> <<30, 25, 20, 15, 10>>
      [] name = "quality" -> <<25, 15, 20, 20, 20>>
      [] name = "dividend" -> <<25, 25, 20, 15, 15>>

ProfileCriteria(name) ==
    CASE name = "value" -> value_criteria(info, price, fair_value)
      [] name = "growth" -> growth_criteria(info, price, fair_value)
      [] name = "quality" -> quality_criteria(info, price, fair_value)
      [] name = "dividend" -> dividend_criteria(info, price, fair_value)

ScanScored == ScoreDone /\ endpoint = "scan"

\* C14: the score of a scan under the profile name 'value', 'growth',
\* 'quality' or 'dividend' is the sum of that profile's criteria, each
\* criterion between 0 and its maximum and the maxima of each profile
\* summing to exactly 100; under any other name the score is the one of
\* the proportional scorer.
C14_ProfileDispatch ==
    /\ \A name \in Algos : SumSeq(ProfileMaxima(name)) = 100
    /\ ScanScored =>
          IF algo \in Algos
          THEN LET pts == ProfileCriteria(algo)
                   maxima == ProfileMaxima(algo)
               IN  /\ Len(pts) = Len(maxima)
                   /\ \A k \in 1..Len(pts) : pts[k] \in 0..maxima[k]
                   /\ result.score = SumSeq(pts)
          ELSE result.score = calculate_score_scan(info, price, fair_value)

\* a dividend scan in which every criterion earns its maximum: 25 + 25 +
\* 20 + 15 + 15 = 100
C14_Witness ==
    /\ ScanScored /\ algo = "dividend"
    /\ ProfileCriteria("dividend") = ProfileMaxima("dividend")
    /\ result.score = 100

----------------------------------------------------------------------------
\* Recommendations

RecommendDone == pc = "done" /\ endpoint = "recommend" /\ result.kind = "batch"

\* C15: every entry of the recommendations is an eligible candidate: its
\* symbol is in the candidate universe (and was picked), it is not a symbol
\* of the submitted watchlist, and its quality score is at least 25.
C15_EligibleEntries ==
    RecommendDone =>
        \A k \in DOMAIN response :
            /\ response[k].symbol \in Symbols
            /\ \E j \in DOMAIN candidates : candidates[j].ticker = response[k].symbol
            /\ response[k].symbol \notin profile.saved_symbols
            /\ response[k].score >= 25

\* AAPL is saved, MSFT scores 22 and JNJ exactly 25: JNJ is recommended,
\* AAPL and MSFT are not
C15_Witness ==
    /\ RecommendDone /\ profile # NoProfile
    /\ "AAPL" \in profile.saved_symbols
    /\ provider["MSFT"] = "short" /\ provider["JNJ"] = "marginal"
    /\ \E k \in DOMAIN response : response[k].symbol = "JNJ" /\ response[k].score = 25
    /\ \A k \in DOMAIN response : response[k].symbol \notin {"AAPL", "MSFT"}

\* the candidates that passed the gate, with their final rank key
Passed == opportunities

\* how often an entry occurs in a list
Occurrences(e, list) == Cardinality({k \in DOMAIN list : list[k] = e})

\* a sorts strictly before b under (-final, -score, -upside)
RanksAbove(a, b) ==
    \/ a.final > b.final
    \/ a.final = b.final /\ a.score > b.score
    \/ a.final = b.final /\ a.score = b.score /\ a.upside > b.upside

\* the candidate behind the entry at position k of the response
Ranked(k) == CHOOSE o \in {Passed[j] : j \in DOMAIN Passed} : PopFinal(o) = response[k]

\* C16: the recommendations are at most 6 entries, the 6 highest-ranked of
\* the candidates that passed the gate (all of them if fewer passed), in
\* descending order of the final rank key, ties by descending quality
\* score, then by descending upside.
C16_TopSixByRank ==
    RecommendDone =>
        /\ Len(response) = Min(6, Len(Passed))
        /\ \A k \in DOMAIN response :
              Occurrences(response[k], response)
                 <= Occurrences(response[k], [j \in DOMAIN Passed |-> PopFinal(Passed[j])])
        /\ \A k \in DOMAIN response : "final" \notin DOMAIN response[k]
        /\ \A k \in 1..(Len(response) - 1) : ~RanksAbove(Ranked(k + 1), Ranked(k))
        /\ \A j \in DOMAIN Passed :
              Occurrences(PopFinal(Passed[j]), response)
                 < Occurrences(PopFinal(Passed[j]), [i \in DOMAIN Passed |-> PopFinal(Passed[i])])
              => \A k \in DOMAIN response : ~RanksAbove(Passed[j], Ranked(k))

\* seven candidates pass and one is left out; among the six entries there
\* is a tie on the final key broken by the quality score and one broken by
\* the upside
C16_Witness ==
    /\ RecommendDone
    /\ Len(Passed) = 7 /\ Len(response) = 6
    /\ \E k \in 1..5 : /\ Ranked(k).final = Ranked(k + 1).final
                       /\ Ranked(k).score > Ranked(k + 1).score
    /\ \E k \in 1..5 : /\ Ranked(k).final = Ranked(k + 1).final
                       /\ Ranked(k).score = Ranked(k + 1).score
                       /\ Ranked(k).upside > Ranked(k + 1).upside

\* the affinity the handler computed for a candidate that passed the gate
AffinityOf(e) == Affinity(profile, e.score, e.price, e.sector)

\* 60% of the quality score plus 40% of the affinity rescaled from 0..40 to
\* 0..100, as an integer: int(0.6 * q + 0.4 * (min(affinity, 40) / 40 * 100))
SixtyFortyBlend(quality_score, affinity) ==
    LET capped == IF affinity.num > 40 * affinity.den THEN Frac(40) ELSE affinity
    IN  Trunc(6 * quality_score * capped.den + 10 * capped.num, 10 * capped.den)

\* C17: the final rank key of every candidate is the 60/40 blend of its
\* quality score and its affinity (capped at 40), computed as an integer, so
\* that quality 100 with affinity 40 gives 100.
C17_SixtyFortyBlend ==
    /\ SixtyFortyBlend(100, Frac(40)) = 100
    /\ (endpoint = "recommend" /\ pc \in {"loop", "done"}) =>
          \A k \in DOMAIN Passed :
              Passed[k].final = SixtyFortyBlend(Passed[k].score, AffinityOf(Passed[k]))

----------------------------------------------------------------------------
\* Specification SpecGuard: the divisions of the core computations.  Each
\* computation returns the divisors it divides by (divided_by), in the
\* order of evaluation, and its outcome.

calculate_roic_mut(i) ==
    LET net_income == safe_get(i.netIncomeToCommon, 0)
        bv_ps == safe_get(i.bookValue, 0)
        shares == safe_get(i.sharesOutstanding, 0)
        equity == IF bv_ps # 0 /\ shares # 0 THEN bv_ps * shares ELSE 0
        invested_capital == equity + safe_get(i.totalDebt, 0) - safe_get(i.totalCash, 0)
    IN  IF net_income = 0 \/ invested_capital < 0
        THEN [divided_by |-> <<>>, outcome |-> None]
        ELSE [divided_by |-> <<invested_capital>>,
              outcome |-> [num |-> net_income * 100, den |-> invested_capital]]

\* calculate_roic(info) of analyze and recommend
calculate_roic(i) ==
    LET net_income == safe_get(i.netIncomeToCommon, 0)
        bv_ps == safe_get(i.bookValue, 0)
        shares == safe_get(i.sharesOutstanding, 0)
        equity == IF bv_ps # 0 /\ shares # 0 THEN bv_ps * shares ELSE 0
        invested_capital == equity + safe_get(i.totalDebt, 0) - safe_get(i.totalCash, 0)
    IN  IF net_income = 0 \/ invested_capital <= 0
        THEN [divided_by |-> <<>>, outcome |-> None]
        ELSE [divided_by |-> <<invested_capital>>,
              outcome |-> [num |-> net_income * 100, den |-> invested_capital]]

\* calculate_rule1: fcf_margin = (fcf / revenue * 100) if revenue and fcf else None
fcf_margin(i) ==
    LET fcf == safe_get(i.freeCashflow, 0)
        revenue == safe_get(i.totalRevenue, 0)
    IN  IF revenue # 0 /\ fcf # 0
        THEN [divided_by |-> <<revenue>>, outcome |-> [num |-> fcf * 100, den |-> revenue]]
        ELSE [divided_by |-> <<>>, outcome |-> None]

\* the divisions of analyze's calculate_score: cash / debt, (fair_value -
\* price) / price and fcf / market_cap
ScoreDivisions(data) ==
    LET debt == OrZero(data.debt)
        p == OrZero(data.price)
        fv == IF data.fair_value.num = 0 THEN Frac(p) ELSE data.fair_value
        fcf == OrZero(data.fcf)
        market_cap == OrZero(data.market_cap)
    IN  (IF debt > 0 THEN <<debt>> ELSE <<>>)
        \o (IF p > 0 /\ fv.num > 0 THEN <<p>> ELSE <<>>)
        \o (IF fcf > 0 /\ market_cap > 0 THEN <<market_cap>> ELSE <<>>)

\* a saved stock without sector, score or price
BlankItem == [symbol |-> "", sector |-> <<>>, score |-> 0, price_at_save |-> 0, price |-> 0]

InitGuard ==
    /\ pc = "call"
    /\ algo = "default"
    /\ result = NoResult
    /\ profile = NoProfile /\ tickers = 0 /\ provider = <<>> /\ candidates = <<>>
    /\ idx = 0 /\ opportunities = <<>> /\ response = <<>>
    /\ NoApp
    /\ \/ /\ endpoint = "roic"
          /\ \E ni \in {None, 0, -4, 6}, bv \in {None, 0, 2}, sh \in {None, 0, 3},
                debt \in {None, 0, 5}, cash \in {None, 0, 5, 11} :
                 info = [NoInfo EXCEPT !.netIncomeToCommon = ni, !.bookValue = bv,
                                       !.sharesOutstanding = sh, !.totalDebt = debt,
                                       !.totalCash = cash]
          /\ price = 0 /\ fair_value = Frac(0) /\ watchlist = <<>>
       \/ /\ endpoint = "fcf_margin"
          /\ \E fcf \in {None, 0, -2, 3}, revenue \in {None, 0, -7, 9} :
                 info = [NoInfo EXCEPT !.freeCashflow = fcf, !.totalRevenue = revenue]
          /\ price = 0 /\ fair_value = Frac(0) /\ watchlist = <<>>
       \/ /\ endpoint = "score"
          /\ \E cash \in {None, 0, 3}, debt \in {None, 0, 2}, fcf \in {None, 0, 1},
                cap \in {None, 0, 10} :
                 info = [NoInfo EXCEPT !.totalCash = cash, !.totalDebt = debt,
                                       !.freeCashflow = fcf, !.marketCap = cap]
          /\ price \in {0, 10} /\ fair_value \in {Frac(0), Frac(12)} /\ watchlist = <<>>
       \/ /\ endpoint = "fair_value"
          /\ FVInputs
          /\ fair_value = Frac(0) /\ watchlist = <<>>
       \/ /\ endpoint = "sticker"
          /\ StickerInputs
          /\ fair_value = Frac(0) /\ watchlist = <<>>
       \/ /\ endpoint \in {"profile", "affinity"}
          /\ watchlist \in Watchlists \cup {<<BlankItem>>, <<BlankItem, BlankItem>>}
          /\ info = NoInfo /\ price \in {0, 100} /\ fair_value = Frac(0)

GuardRoic ==
    /\ pc = "call" /\ endpoint = "roic"
    /\ Returned("divisions", calculate_roic(info))

GuardFcfMargin ==
    /\ pc = "call" /\ endpoint = "fcf_margin"
    /\ Returned("divisions", fcf_margin(info))

GuardScore ==
    /\ pc = "call" /\ endpoint = "score"
    /\ LET data == AnalyzeData(info, price, fair_value)
       IN  Returned("divisions", [divided_by |-> ScoreDivisions(data),
                                  outcome |-> calculate_score_analyze(data).score])

\* sum(fair_values) / len(fair_values) if fair_values else price, and
\* ((fair_value - price) / price * 100) if price > 0 else 0
GuardFairValue ==
    /\ pc = "call" /\ endpoint = "fair_value"
    /\ LET methods == FairValueMethods(info, price)
           fv == BlendFairValues(methods, price)
       IN  Returned("divisions",
                    [divided_by |-> (IF methods # <<>> THEN <<Len(methods)>> ELSE <<>>)
                                    \o (IF price > 0 THEN <<price>> ELSE <<>>),
                     outcome |-> [fair_value |-> fv, upside |-> UpsideOrZero(fv, price)]])

\* calculate_sticker_price: growth_rate = (fwd - eps) / eps
GuardSticker ==
    /\ pc = "call" /\ endpoint = "sticker"
    /\ LET eps == safe_get(info.trailingEps, 0)
           g == ResolveGrowth(info, eps)
           sticker == calculate_sticker_price_analyze(info, price)
       IN  Returned("divisions",
                    [divided_by |-> IF eps > 0 /\ g # <<>> /\ g[1].source = "forward EPS growth"
                                    THEN <<eps>> ELSE <<>>,
                     outcome |-> IF sticker.available THEN sticker.growth_rate ELSE None])

\* build_profile: sum(scores) / len(scores), c / total_sector_saves for each
\* sector, sum(prices) / len(prices)
GuardProfile ==
    /\ pc = "call" /\ endpoint = "profile"
    /\ LET Saved(k) == IF watchlist[k].price_at_save # 0 THEN watchlist[k].price_at_save
                       ELSE watchlist[k].price
           named == {k \in DOMAIN watchlist : watchlist[k].sector # <<>>}
           scores == {k \in DOMAIN watchlist : watchlist[k].score # 0}
           prices == {k \in DOMAIN watchlist : Saved(k) > 0}
           prof == build_profile(watchlist)
       IN  Returned("divisions",
                    [divided_by |-> (IF scores # {} THEN <<Cardinality(scores)>> ELSE <<>>)
                                    \o [k \in 1..Cardinality(DOMAIN prof.sectors) |->
                                           IF named # {} THEN Cardinality(named) ELSE 1]
                                    \o (IF prices # {} THEN <<Cardinality(prices)>> ELSE <<>>),
                     outcome |-> prof])

\* the affinity of a candidate of quality 52: score_range / 2 and
\* ... / max_affinity with max_affinity = 40
GuardAffinity ==
    /\ pc = "call" /\ endpoint = "affinity"
    /\ LET prof == build_profile(watchlist)
           affinity == Affinity(prof, 52, price, <<"Technology">>)
       IN  Returned("divisions",
                    [divided_by |-> <<2, 2, 40>>,
                     outcome |-> [affinity |-> affinity, final |-> FinalScore(52, affinity)]])

NextGuard ==
    \/ GuardRoic \/ GuardFcfMargin \/ GuardScore \/ GuardFairValue
    \/ GuardSticker \/ GuardProfile \/ GuardAffinity

SpecGuard == InitGuard /\ [][NextGuard]_vars

Divisions == result.value

Divided == pc = "done" /\ result.kind = "divisions"

\* C18: no core computation divides by zero: every divisor it uses is non
\* zero, and for price = 0, invested capital <= 0, shares = 0, debt = 0,
\* market cap = 0, revenue = 0 or an empty sector / score / price list the
\* computation is skipped (None) or replaced by its default.
C18_NoDivisionByZero ==
    Divided =>
        /\ \A k \in DOMAIN Divisions.divided_by : Divisions.divided_by[k] # 0
        /\ endpoint = "roic" =>
              LET equity == IF OrZero(info.bookValue) # 0 /\ OrZero(info.sharesOutstanding) # 0
                            THEN info.bookValue * info.sharesOutstanding ELSE 0
              IN  (equity + OrZero(info.totalDebt) - OrZero(info.totalCash) <= 0)
                     => Divisions.outcome = None
        /\ endpoint = "fcf_margin" =>
              (OrZero(info.totalRevenue) = 0 => Divisions.outcome = None)
        /\ endpoint = "score" => Divisions.outcome \in 0..100
        /\ endpoint = "fair_value" =>
              /\ price = 0 => Divisions.outcome.upside = Frac(0)
              /\ FairValueMethods(info, price) = <<>> => Divisions.outcome.fair_value = Frac(price)
        /\ endpoint = "sticker" =>
              (OrZero(info.trailingEps) <= 0 => Divisions.outcome = None)
        /\ endpoint = "profile" =>
              /\ (\A k \in DOMAIN watchlist : watchlist[k].score = 0)
                    => Divisions.outcome.avg_score = Frac(50)
              /\ (\A k \in DOMAIN watchlist :
                     watchlist[k].price_at_save = 0 /\ watchlist[k].price = 0)
                    => Divisions.outcome.avg_price = Frac(200)
              /\ (\A k \in DOMAIN watchlist : watchlist[k].sector = <<>>)
                    => DOMAIN Divisions.outcome.sector_weights = {}
        /\ endpoint = "affinity" => Divisions.outcome.final \in 0..76

\* net income 6, equity 2 * 3, debt 5 and cash 11: invested capital is 0
\* and the ROIC is None
C18_Witness ==
    /\ Divided /\ endpoint = "roic"
    /\ info.netIncomeToCommon = 6 /\ info.bookValue = 2 /\ info.sharesOutstanding = 3
    /\ info.totalDebt = 5 /\ info.totalCash = 11
    /\ Divisions.divided_by = <<>> /\ Divisions.outcome = None

\* ---------------------------------------------------------------------------
\* The Flask app (app.py): the result cache, the key configuration and the
\* /api/config, /api/quote, /api/analyze and /api/scan handlers.
\* The provider data never changes; only the configuration and the clock do.
\* ---------------------------------------------------------------------------

\* seconds that pass between two looks at the clock
TickSeconds == 100

\* the clock stops after this many ticks
MaxTime == 3

CACHE_TTL == 300

QuoteTTL == 60

\* the symbol /api/quote and /api/analyze are asked for
AppSymbols == {"AAPL"}

\* values a key can be set to; "" is the unset key
KeyValues == {"", "k"}

\* what the providers hold for a symbol
Listing(symbol) == IF symbol = "AAPL" THEN Quote("fair2") ELSE Quote("steady")

\* tradier_request / fmp_request: None without the key
tradier_request(k, symbol) == IF k.TRADIER_API_KEY = "" THEN <<>> ELSE <<Listing(symbol)>>

fmp_request(k, symbol) == IF k.FMP_API_KEY = "" THEN <<>> ELSE <<Listing(symbol)>>

\* get_cached: the data of a live entry, or nothing
get_cached(c, key, ttl, t) ==
    IF key \in DOMAIN c /\ (t - c[key].timestamp) * TickSeconds < ttl
    THEN <<c[key].data>>
    ELSE <<>>

set_cached(c, key, data, t) == (key :> [data |-> data, timestamp |-> t]) @@ c

\* get_quote past the cache: Tradier first, FMP next; <<>> when neither answers
fetch_quote(k, symbol) ==
    IF tradier_request(k, symbol) # <<>>
    THEN <<[symbol |-> symbol, price |-> tradier_request(k, symbol)[1].currentPrice,
            source |-> "tradier"]>>
    ELSE IF fmp_request(k, symbol) # <<>>
    THEN <<[symbol |-> symbol, price |-> fmp_request(k, symbol)[1].currentPrice,
            source |-> "fmp"]>>
    ELSE <<>>

NoKeyConfigured(symbol) == [symbol |-> symbol, price |-> None, source |-> "error"]

\* analyze_stock past the cache: the price of either provider, the
\* fundamentals and the DCF value of FMP only
compute_analysis(k, symbol) ==
    LET quoted == fetch_quote(k, symbol) # <<>>
        funded == fmp_request(k, symbol) # <<>>
        seen == [Listing(symbol) EXCEPT
                    !.currentPrice = IF quoted THEN @ ELSE 0,
                    !.info = IF funded THEN @ ELSE NoInfo,
                    !.dcf = IF funded THEN @ ELSE None]
        analysis == AppAnalysis(seen)
    IN  [symbol |-> symbol, price |-> analysis.price,
         investment_score |-> analysis.investment_score,
         upside_percent |-> analysis.upside_percent]

\* analyze_stock: the cached analysis while it lives, else a new one, stored
analyze_stock(c, k, symbol, t) ==
    LET cached == get_cached(c, <<"analysis", symbol>>, CACHE_TTL, t)
    IN  IF cached # <<>> THEN [cache |-> c, data |-> cached[1]]
        ELSE [cache |-> set_cached(c, <<"analysis", symbol>>,
                                   compute_analysis(k, symbol), t),
              data |-> compute_analysis(k, symbol)]

\* scan_opportunities: one entry of the list
Opportunity(analysis) ==
    [symbol |-> analysis.symbol, price |-> analysis.price,
     score |-> analysis.investment_score, upside |-> analysis.upside_percent]

\* scan_opportunities: the loop calls analyze_stock, the cache included
RECURSIVE scan_loop(_, _, _, _)
scan_loop(c, k, symbols, t) ==
    IF symbols = <<>> THEN [cache |-> c, opportunities |-> <<>>]
    ELSE LET first == analyze_stock(c, k, Head(symbols), t)
             rest == scan_loop(first.cache, k, Tail(symbols), t)
         IN  [cache |-> rest.cache,
              opportunities |-> <<Opportunity(first.data)>> \o rest.opportunities]

\* the symbols parameter of /api/scan
ScanLists == {<<"AAPL">>, <<"MSFT", "AAPL">>}

\* the body posted to /api/config: either key may be absent
ConfigBodies ==
    UNION { [fields -> KeyValues] : fields \in SUBSET {"tradier_key", "fmp_key"} }

InitCache ==
    /\ pc = "serving" /\ endpoint = "start" /\ algo = "default"
    /\ info = NoInfo /\ price = 0 /\ fair_value = Frac(0)
    /\ result = NoResult
    /\ watchlist = <<>> /\ profile = NoProfile
    /\ tickers = 0 /\ provider = <<>> /\ candidates = <<>>
    /\ idx = 0 /\ opportunities = <<>> /\ response = <<>>
    /\ cache = <<>>
    /\ keys \in [TRADIER_API_KEY : KeyValues, FMP_API_KEY : KeyValues]
    /\ now = 0

Served(name, symbols, c, answer) ==
    /\ pc = "serving"
    /\ endpoint' = name
    /\ candidates' = symbols
    /\ cache' = c
    /\ response' = answer
    /\ UNCHANGED <<pc, algo, info, price, fair_value, result, watchlist, profile,
                   tickers, provider, idx, opportunities, now>>

\* POST /api/config
SetConfig ==
    \E body \in ConfigBodies :
        LET k == [TRADIER_API_KEY |-> IF "tradier_key" \in DOMAIN body
                                      THEN body.tradier_key ELSE keys.TRADIER_API_KEY,
                  FMP_API_KEY |-> IF "fmp_key" \in DOMAIN body
                                  THEN body.fmp_key ELSE keys.FMP_API_KEY]
        IN  /\ keys' = k
            /\ Served("config", <<>>, cache,
                      [status |-> "ok", tradier_configured |-> k.TRADIER_API_KEY # "",
                       fmp_configured |-> k.FMP_API_KEY # ""])

\* GET /api/quote/<symbol>
GetQuote ==
    \E symbol \in AppSymbols :
        LET cached == get_cached(cache, <<"quote", symbol>>, QuoteTTL, now)
            fetched == fetch_quote(keys, symbol)
        IN  /\ UNCHANGED keys
            /\ IF cached # <<>> THEN Served("quote", <<symbol>>, cache, cached[1])
               ELSE IF fetched # <<>>
               THEN Served("quote", <<symbol>>,
                           set_cached(cache, <<"quote", symbol>>, fetched[1], now),
                           fetched[1])
               ELSE Served("quote", <<symbol>>, cache, NoKeyConfigured(symbol))

\* GET /api/analyze/<symbol>
AnalyzeStock ==
    \E symbol \in AppSymbols :
        LET done == analyze_stock(cache, keys, symbol, now)
        IN  /\ UNCHANGED keys
            /\ Served("analyze", <<symbol>>, done.cache, done.data)

\* GET /api/scan?symbols=...
ScanOpportunities ==
    \E symbols \in ScanLists :
        LET done == scan_loop(cache, keys, symbols, now)
        IN  /\ UNCHANGED keys
            /\ Served("scan", symbols, done.cache,
                      [opportunities |-> SortByScore(done.opportunities),
                       scanned |-> Len(symbols)])

\* time.time() moves on between two requests
Tick ==
    /\ pc = "serving"
    /\ now < MaxTime
    /\ now' = now + 1
    /\ UNCHANGED <<pc, endpoint, algo, info, price, fair_value, result, watchlist,
                   profile, tickers, provider, candidates, idx, opportunities,
                   response, cache, keys>>

NextCache == SetConfig \/ GetQuote \/ AnalyzeStock \/ ScanOpportunities \/ Tick

SpecCache == InitCache /\ [][NextCache]_vars

\* what the handler of the last request computes with the cache disabled,
\* under the keys now in force
Uncached ==
    CASE endpoint = "quote" ->
            IF fetch_quote(keys, candidates[1]) # <<>>
            THEN fetch_quote(keys, candidates[1])[1]
            ELSE NoKeyConfigured(candidates[1])
      [] endpoint = "analyze" -> compute_analysis(keys, candidates[1])
      [] endpoint = "scan" ->
            [opportunities |->
                SortByScore([n \in 1..Len(candidates) |->
                                Opportunity(compute_analysis(keys, candidates[n]))]),
             scanned |-> Len(candidates)]

\* C19: every response of /api/quote, /api/analyze and /api/scan equals the
\* response computed with the cache disabled under the keys in force at the
\* time of the request.
C19_CacheTransparent ==
    (pc = "serving" /\ endpoint \in {"quote", "analyze", "scan"}) => response = Uncached

\* ---------------------------------------------------------------------------
\* discover.py against analyze/[symbol].py: the two calculate_score functions

\* the record discover scores, as analyze's calculate_score reads it:
\* data.get('market_cap', 0) finds no market cap in it
DiscoverRecord == DiscoverData(info, price, fair_value) @@ [market_cap |-> 0]

\* C20: for every metrics record, discover's calculate_score returns the
\* score that analyze's calculate_score returns for that record.
C20_SameScoring ==
    (ScoreDone /\ endpoint = "discover")
        => result.score = calculate_score_analyze(DiscoverRecord).score

\* ---------------------------------------------------------------------------
\* recommend.py rule1_score against analyze's build_stock_result

\* what build_stock_result computes for the record: investment_score, upside
StockDetails ==
    LET fv == FairValueAnalyze(info, price).fair_value
    IN  [score |-> calculate_score_analyze(AnalyzeData(info, price, fv)).score,
         upside |-> Round1(UpsideOrZero(fv, price))]

\* C21: for every provider record and price, the quality score and the upside
\* of rule1_score equal the investment_score and the upside that the analyze
\* endpoint computes for the same record.
C21_ConsistentWithDetails ==
    (ScoreDone /\ endpoint = "recommend")
        => /\ result.score = StockDetails.score
           /\ rule1_score(info, price).upside = StockDetails.upside

\* ---------------------------------------------------------------------------
\* analyze/[symbol].py handler.do_GET: direct lookup, ticker resolver, second
\* lookup, response.  `candidates` is the log of the calls made to the
\* provider, `result` holds the locals of the handler.
\* ---------------------------------------------------------------------------

\* the last path segment of the request, decoded
RawInputs == {"aapl", "apple", " spy", "zzz"}

\* raw_input_decoded.upper().strip() and resolved_sym.upper()
UpperStrip(text) ==
    CASE text = "aapl" -> "AAPL"
      [] text = "apple" -> "APPLE"
      [] text = " spy" -> "SPY"
      [] text = "zzz" -> "ZZZ"
      [] OTHER -> text

\* what yf.Search can answer: the quotes in order, or an exception
SearchAnswers ==
    { [call |-> "ok", quotes |-> <<>>],
      [call |-> "ok", quotes |-> <<[quoteType |-> "FUTURE", symbol |-> "AP=F"],
                                   [quoteType |-> "EQUITY", symbol |-> "aapl"]>>],
      [call |-> "ok", quotes |-> <<[quoteType |-> "EQUITY", symbol |-> ""],
                                   [quoteType |-> "ETF", symbol |-> "SPY"]>>],
      [call |-> "ok", quotes |-> <<[quoteType |-> "EQUITY", symbol |-> "GONE"]>>],
      [call |-> "raise", quotes |-> <<>>] }

\* resolve_symbol: the first EQUITY or ETF quote with a symbol; "" is None
resolve_symbol(search) ==
    LET hits == SelectSeq(search.quotes,
                          LAMBDA q : q.quoteType \in {"EQUITY", "ETF"} /\ q.symbol # "")
    IN  IF search.call = "ok" /\ hits # <<>> THEN hits[1].symbol ELSE ""

\* try_yfinance: the info of a symbol with a price, else None
try_yfinance(market, symbol) == symbol \in market.priced

needs_resolver_mut(found) == TRUE

\* `if info is None:` before the resolver
needs_resolver(found) == ~found

\* the JSON written when no lookup found the symbol
NotFound(raw, symbol) == [error |-> <<"Could not find", raw>>, symbol |-> symbol]

\* the JSON of build_stock_result / build_etf_result
Analysis(symbol) ==
    IF symbol = "SPY" THEN [symbol |-> symbol, is_etf |-> TRUE, price |-> 100]
    ELSE LET fv == FairValueAnalyze(FairInfo, 100).fair_value
         IN  [symbol |-> symbol, is_etf |-> FALSE, price |-> 100,
              investment_score |->
                  calculate_score_analyze(AnalyzeData(FairInfo, 100, fv)).score]

InitResolve ==
    /\ pc = "lookup" /\ endpoint = "analyze" /\ algo = "default"
    /\ info = NoInfo /\ price = 0 /\ fair_value = Frac(0)
    /\ watchlist = <<>> /\ profile = NoProfile /\ tickers = 0
    /\ idx = 0 /\ opportunities = <<>> /\ response = <<>>
    /\ NoApp
    /\ candidates = <<>>
    /\ \E raw \in RawInputs :
           result = [kind |-> "lookup", raw |-> raw, symbol |-> UpperStrip(raw),
                     found |-> FALSE]
    /\ \E priced \in SUBSET {"AAPL", "SPY"}, search \in SearchAnswers :
           provider = [priced |-> priced, search |-> search]

Stepped(next, log, locals, answer) ==
    /\ pc' = next
    /\ candidates' = log
    /\ result' = locals
    /\ response' = answer
    /\ UNCHANGED <<endpoint, algo, info, price, fair_value, watchlist, profile,
                   tickers, provider, idx, opportunities, cache, keys, now>>

\* step 1: info = try_yfinance(symbol)
DirectLookup ==
    /\ pc = "lookup"
    /\ LET found == try_yfinance(provider, result.symbol)
       IN  Stepped(IF needs_resolver(found) THEN "resolve" ELSE "respond",
                   Append(candidates, [call |-> "try_yfinance", arg |-> result.symbol,
                                       found |-> found]),
                   [result EXCEPT !.found = found], response)

\* step 2: resolve_symbol(raw_input_decoded), then the lookup of its symbol
ResolveAndLookup ==
    /\ pc = "resolve"
    /\ LET resolved_sym == resolve_symbol(provider.search)
           asked == Append(candidates, [call |-> "resolve_symbol", arg |-> result.raw,
                                        found |-> resolved_sym # ""])
           symbol == UpperStrip(resolved_sym)
           found == try_yfinance(provider, symbol)
       IN  IF resolved_sym # ""
           THEN Stepped("respond",
                        Append(asked, [call |-> "try_yfinance", arg |-> symbol,
                                       found |-> found]),
                        [result EXCEPT !.symbol = symbol, !.found = found],
                        response)
           ELSE Stepped("respond", asked, result, response)

\* step 3: the error object, or the analysis
Respond ==
    /\ pc = "respond"
    /\ Stepped("done", candidates, result,
               IF result.found THEN Analysis(result.symbol)
               ELSE NotFound(result.raw, result.symbol))

NextResolve == DirectLookup \/ ResolveAndLookup \/ Respond

SpecResolve == InitResolve /\ [][NextResolve]_vars

Calls == candidates

Lookups == {k \in DOMAIN Calls : Calls[k].call = "try_yfinance"}

\* C22: the resolver is invoked only after the direct lookup of the requested
\* symbol has failed; the provider is queried again only for a symbol the
\* resolver returned; when the direct and the resolved lookup both fail the
\* response is an error object naming the input, without analysis fields.
C22_ResolverAfterFailure ==
    result.kind = "lookup" =>
        /\ \A k \in DOMAIN Calls :
               Calls[k].call = "resolve_symbol" =>
                   /\ k = 2
                   /\ Calls[1] = [call |-> "try_yfinance",
                                  arg |-> UpperStrip(result.raw), found |-> FALSE]
        /\ \A k \in Lookups :
               k > 1 =>
                   /\ Calls[k - 1].call = "resolve_symbol"
                   /\ Calls[k - 1].found
                   /\ Calls[k].arg = UpperStrip(resolve_symbol(provider.search))
        /\ (pc = "done" /\ \A k \in Lookups : ~Calls[k].found) =>
               /\ DOMAIN response = {"error", "symbol"}
               /\ response.error = <<"Could not find", result.raw>>

\* both lookups were made and failed, and the error was written
C22_Witness ==
    /\ result.kind = "lookup" /\ pc = "done"
    /\ Len(Calls) = 3 /\ ~Calls[1].found /\ ~Calls[3].found
    /\ response = NotFound("apple", "GONE")

\* ---------------------------------------------------------------------------
\* The trailing-P/E method at its boundary

\* the trailing-P/E contribution as stated: below 25 a premium, from 25 on a
\* discount
TrailingPEPartition(i, p) ==
    IF i.trailingPE < 25 * Scale
    THEN <<[label |-> "Low PE Premium", fv |-> p * 11 * (FVDen \div 10)]>>
    ELSE <<[label |-> "High PE Discount", fv |-> p * 95 * (FVDen \div 100)]>>

\* C23: for every positive trailing P/E and positive price exactly one branch
\* of the trailing-P/E method fires: P/E < 25 contributes price x 1.1 and
\* P/E >= 25 (P/E exactly 25 included) contributes price x 0.95.
C23_TrailingPEBranch ==
    (FVDone /\ HasTrailingPE) =>
        LET methods == TargetMethod(info) \o ForwardPEMethod(info) \o PEGMethod(info)
                           \o TrailingPEPartition(info, price)
        IN  /\ fair_value = BlendFairValues(methods, price)
            /\ endpoint = "analyze" =>
                   /\ Len(result.fair_values) = Len(methods)
                   /\ \A k \in 1..Len(methods) :
                          /\ result.fair_values[k] = methods[k].fv
                          /\ result.fair_value_components[k].label = methods[k].label

\* ---------------------------------------------------------------------------
\* The sector-multiple fallback

\* one of the four earlier methods fired, read off the provider record
EarlierMethodFired ==
    \/ HasTarget \/ HasForwardPE \/ HasGrowth
    \/ HasTrailingPE /\ info.trailingPE # 25 * Scale

SectorMultiple ==
    IF InSector("Technology", info.sector) THEN 25
    ELSE IF InSector("Consumer", info.sector) THEN 20
    ELSE 18

\* C24: the sector-multiple method contributes if and only if EPS is positive
\* and none of the four earlier methods fired; its value is EPS x 25 for a
\* Technology sector, EPS x 20 for a Consumer sector, EPS x 18 otherwise; the
\* components never hold the sector-multiple entry together with another.
C24_SectorFallback ==
    /\ (FVDone /\ endpoint = "analyze") =>
          LET c == result.fair_value_components
          IN  /\ HasLabel(c, 5) <=> (HasEps /\ ~EarlierMethodFired)
              /\ HasLabel(c, 5) =>
                     /\ Len(c) = 1
                     /\ result.fair_values = <<info.trailingEps * SectorMultiple * FVDen>>
                     /\ c[1].value = info.trailingEps * SectorMultiple * 100
                     /\ fair_value.num = info.trailingEps * SectorMultiple * fair_value.den
    /\ (FVDone /\ endpoint = "scan" /\ HasEps /\ ~EarlierMethodFired) =>
          fair_value.num = info.trailingEps * SectorMultiple * fair_value.den
    /\ (FVDone /\ endpoint = "scan" /\ ~HasEps /\ ~EarlierMethodFired) =>
          fair_value.num = price * fair_value.den

\* a Technology stock valued by the fallback alone, its P/E being exactly 25
C24_Witness ==
    /\ FVDone /\ endpoint = "analyze"
    /\ info.sector = <<"Consumer", "Technology">> /\ info.trailingPE = 25 * Scale
    /\ price = 100
    /\ result.fair_values = <<5 * 25 * FVDen>>

\* ---------------------------------------------------------------------------
\* Growth rates as percentages

\* the PEG value when the growth is normalized by to_pct: EPS x min(pct, 40)
PEGByToPct ==
    info.trailingEps * Min(to_pct_analyze(info.earningsGrowth), 40 * Scale)
        * (FVDen \div Scale)

\* C25: every conversion of a positive growth rate to a percentage applies
\* the rule of the metric normalizer: the percentage used for a raw growth g
\* is to_pct(g), g x 100 when g <= 10 and g when g > 10.
C25_GrowthAsToPct ==
    (FVDone /\ endpoint = "analyze" /\ HasGrowth) =>
        \E k \in 1..Len(result.fair_values) :
            /\ MethodRank(result.fair_value_components[k].label) = 3
            /\ result.fair_values[k] = PEGByToPct

\* ---------------------------------------------------------------------------
\* The proportional scorer, criterion by criterion

\* clamp(0, 15, (pct + 5) x 15 / 20), truncated; pct in hundredths of a percent
ReturnPoints(pct) == Max(0, Min(15, Trunc((pct + 5 * Scale) * 15, 20 * Scale)))

\* clamp(0, 15, cash / debt x 7.5) for debt > 0; 15 for cash alone; else 0
CoveragePoints(cash, debt) ==
    IF debt > 0 THEN Max(0, Min(15, Trunc(cash * 15, debt * 2)))
    ELSE IF cash > 0 THEN 15 ELSE 0

\* clamp(0, 15, fcf / market_cap x 100 x 1.5); a flat 10 without market cap
YieldPoints(fcf, market_cap) ==
    IF fcf > 0 /\ market_cap > 0 THEN Max(0, Min(15, Trunc(fcf * 150, market_cap)))
    ELSE IF fcf > 0 THEN 10 ELSE 0

\* percentages around the two ends of the ROA/ROE scale
PctProbes == {-BigRatio, -6 * Scale, -5 * Scale, -499, 0, 7 * Scale, 1499, 15 * Scale,
              16 * Scale, BigRatio}

PointsOf(name) == (CHOOSE k \in DOMAIN Checks : Checks[k].name = name)

\* C26: the criterion points of the proportional scorer are the stated
\* formulas, truncated and clamped: ROA and ROE clamp(0, 15, (pct + 5) x
\* 15/20), 0 up to -5 %, 15 from 15 % on, non-decreasing; cash against debt
\* clamp(0, 15, cash/debt x 7.5) for debt > 0, 15 for cash without debt, 0
\* for neither; free cash flow clamp(0, 15, yield x 1.5), a flat 10 without
\* market cap, 0 otherwise; analyze and scan return the same total.
C26_ProportionalPoints ==
    /\ (ScoreDone /\ endpoint = "analyze") =>
          LET roa_pct == to_pct_analyze(OrZero(info.returnOnAssets))
              roe_pct == to_pct_analyze(OrZero(info.returnOnEquity))
              roa_pts == Checks[PointsOf("roa")].points
              roe_pts == Checks[PointsOf("roe")].points
          IN  /\ roa_pts = ReturnPoints(roa_pct)
              /\ roe_pts = ReturnPoints(roe_pct)
              /\ roa_pct <= -5 * Scale => roa_pts = 0
              /\ roa_pct >= 15 * Scale => roa_pts = 15
              /\ \A b \in PctProbes :
                     /\ b <= roa_pct => ProportionalPts(b, 15, 20) <= roa_pts
                     /\ b >= roa_pct => ProportionalPts(b, 15, 20) >= roa_pts
              /\ Checks[PointsOf("cash_debt")].points
                     = CoveragePoints(OrZero(info.totalCash), OrZero(info.totalDebt))
              /\ Checks[PointsOf("fcf")].points
                     = YieldPoints(OrZero(info.freeCashflow), OrZero(info.marketCap))
              /\ result.score = calculate_score_scan(info, price, fair_value)
    /\ (ScoreDone /\ endpoint = "scan" /\ algo = "default") =>
          result.score = calculate_score_analyze(AnalyzeData(info, price, fair_value)).score

\* partial credit for ROA (7 %: 9 points) and for the coverage (1.5: 11)
C26_Witness ==
    /\ ScoreDone /\ endpoint = "analyze"
    /\ Checks[PointsOf("roa")].points = 9
    /\ Checks[PointsOf("cash_debt")].points = 11
    /\ Checks[PointsOf("fcf")].points = 15
    /\ info.totalDebt = 2 /\ info.marketCap = 10

\* ---------------------------------------------------------------------------
\* The cliff-edge scorers against the stated tiers

\* the stated tiers on normalized metrics: ROA, ROE 15/7; 15 when cash >=
\* debt; upside 20/10/5; margin 10/5; 10 when 0 < P/S < 2; 15 when FCF > 0
CliffTotal(roa_pct, roe_pct, cash, debt, fv, p, pm_pct, ps, fcf) ==
    (IF roa_pct > 10 * Scale THEN 15 ELSE IF roa_pct > 5 * Scale THEN 7 ELSE 0)
    + (IF roe_pct > 10 * Scale THEN 15 ELSE IF roe_pct > 5 * Scale THEN 7 ELSE 0)
    + (IF cash >= debt THEN 15 ELSE 0)
    + (IF p > 0 /\ fv.num > 0
       THEN (IF FracGt(UpsideOf(fv, p), 30) THEN 20
             ELSE IF FracGt(UpsideOf(fv, p), 10) THEN 10
             ELSE IF FracGt(UpsideOf(fv, p), 0) THEN 5 ELSE 0)
       ELSE 0)
    + (IF pm_pct > 15 * Scale THEN 10 ELSE IF pm_pct > 5 * Scale THEN 5 ELSE 0)
    + (IF 0 < ps /\ ps < 2 * Scale THEN 10 ELSE 0)
    + (IF fcf > 0 THEN 15 ELSE 0)

\* the fair value the scorer of the endpoint works with
CliffFairValue ==
    IF endpoint = "recommend"
    THEN BlendFairValues(TargetMethod(info) \o ForwardPEMethod(info) \o PEGMethod(info),
                         price)
    ELSE IF fair_value.num = 0 THEN Frac(price) ELSE fair_value

\* the percentage the scorer of the endpoint works with
CliffPct(raw) ==
    IF endpoint = "utils" THEN OrZero(raw) * 100
    ELSE IF endpoint = "discover" THEN to_pct_discover(OrZero(raw))
    ELSE OrZero(to_pct_recommend(raw))

\* C27: every cliff-edge scorer (_utils/app, discover, recommend) awards the
\* stated tiers on normalized metrics, 15 exactly when cash >= debt, and the
\* three return the same total for the same metrics and fair value.
C27_CliffTiers ==
    (ScoreDone /\ endpoint \in {"utils", "discover", "recommend"}) =>
        result.score = Min(100,
            CliffTotal(CliffPct(info.returnOnAssets), CliffPct(info.returnOnEquity),
                       OrZero(info.totalCash), OrZero(info.totalDebt),
                       CliffFairValue, price, CliffPct(info.profitMargins),
                       OrZero(info.priceToSalesTrailing12Months),
                       OrZero(info.freeCashflow)))

\* ---------------------------------------------------------------------------
\* The checklist of analyze's calculate_score as an account of the score

RECURSIVE PointsSum(_)
PointsSum(checks) ==
    IF checks = <<>> THEN 0 ELSE Head(checks).points + PointsSum(Tail(checks))

\* C28: for every input of analyze's calculate_score the returned score is
\* the sum of the 'points' fields of the returned checklist entries.
C28_ScoreIsChecklistSum ==
    ChecklistReturned => result.score = PointsSum(Checks)

\* ---------------------------------------------------------------------------
\* Symbols listed in two pools

\* no two positions of the list carry the same value
Distinct(list) == \A j, k \in DOMAIN list : list[j] = list[k] => j = k

\* C29: for every watchlist and every outcome of the shuffle, no ticker
\* symbol appears twice in the candidate list of pick_candidates nor in the
\* recommendations of the response.
C29_NoDuplicateSymbols ==
    /\ Distinct([k \in DOMAIN candidates |-> candidates[k].ticker])
    /\ RecommendDone => Distinct([k \in DOMAIN response |-> response[k].symbol])

\* ---------------------------------------------------------------------------
\* The order of the signals

\* AVOID < WATCH < HOLD < BUY < STRONG BUY
SignalRank(signal) ==
    CASE signal = "AVOID" -> 0
      [] signal = "WATCH" -> 1
      [] signal = "HOLD" -> 2
      [] signal = "BUY" -> 3
      [] signal = "STRONG BUY" -> 4

\* the classifier of the endpoint of the run
SignalFor(score, upside) ==
    IF endpoint = "utils" THEN get_recommendation_utils(score, upside)
    ELSE IF endpoint = "analyze" THEN get_recommendation_analyze(score, upside)
    ELSE get_recommendation_app(score, upside)

\* raises of the score and of the upside (in tenths) that are tried
Raises == {1, 10, 25, 150, 400}

\* C30: get_recommendation is monotone: with AVOID < WATCH < HOLD < BUY <
\* STRONG BUY, raising the score with the upside fixed, or the upside with
\* the score fixed, never yields a lower-ranked signal.
C30_MonotoneSignal ==
    (RecDone /\ endpoint \in {"utils", "analyze"}) =>
        \A r \in Raises :
            /\ SignalRank(SignalFor(result.investment_score + r, result.upside))
                   >= SignalRank(result.recommendation)
            /\ SignalRank(SignalFor(result.investment_score,
                                    [result.upside EXCEPT !.num = @ + r]))
                   >= SignalRank(result.recommendation)

\* a BUY that one more point of score turns into a STRONG BUY
C30_Witness ==
    /\ RecDone /\ endpoint = "utils"
    /\ result.investment_score = 69 /\ result.upside.num = 310
    /\ result.recommendation = "BUY"
    /\ SignalFor(70, result.upside) = "STRONG BUY"

====
